---- MODULE Spec2Model ----
(***************************************************************************)
(* A model of awsmfunc (src/awsmfunc.py): the border balancing engine      *)
(* bbmoda/btb, BlackBorders, CropResize and CropResizeReader.              *)
(*                                                                         *)
(* A frame is a function from the planes 0..2 (Y, U, V; 4:4:4) to a grid,  *)
(* a grid is a sequence of rows, a row a sequence of integer samples.      *)
(* Every component is a small state machine of its own (its variables      *)
(* carry the component's prefix); a specification runs one component and   *)
(* leaves the variables of the others at their idle values.                *)
(***************************************************************************)
EXTENDS Integers, Sequences, FiniteSets, TLC

VARIABLES
    bArgs,      \* bbmoda: the arguments of the call (c, cTop, ..., thresh, blur)
    bPc,        \* bbmoda: position: "call", "edges", "returned", "raised"
    bEdge,      \* bbmoda: how many of the four edge statements (lines 248-255) ran
    bC,         \* bbmoda: the local variable c, the frame being rebuilt
    bPos,       \* bbmoda: for every cell of c, the input cell <<row, col>> it holds
    bBand,      \* bbmoda: the thickness btb used in the last edge statement (-1: none)
    bCells,     \* bbmoda: the input cells <<row, col>> of the band btb corrected last
    bErr,       \* bbmoda: the exception raised ("none" when there is none)
    cArgs,      \* CropResize: the arguments of the call
    cPc,        \* CropResize: position: "call", "geometry", "crop", "bbmod", "resize", ...
    cEff,       \* CropResize: left, right, top, bottom after lines 340-343
    cSize,      \* CropResize: the locals w and h
    cCropeven,  \* CropResize: the local cropeven (a window of the input), filled: the
                \*             arguments of fb.FillBorders
    cBbCall,    \* CropResize: the keywords of the call of bbmod
    cOut,       \* CropResize: the clip returned
    cErr,       \* CropResize: the exception raised
    kArgs,      \* BlackBorders: the arguments of the call
    kPc,        \* BlackBorders: position: "call", "left", "right", "top", "bottom", ...
    kClip,      \* BlackBorders: the size of the local clip
    kLog,       \* BlackBorders: the border pieces built so far, in order
    kErr,       \* BlackBorders: the exception raised
    rArgs,      \* CropResizeReader: the arguments of the call and the rows of the file
    rPc,        \* CropResizeReader: position: "call", "open", "loop", "resize", "pad", ...
    rZone,      \* CropResizeReader: the number of rows read so far
    rFilled,    \* CropResizeReader: the columns / rows of the current row filled in place
    rCoreArgs,  \* CropResizeReader: the arguments CropResize got for the current row
    rCore,      \* CropResizeReader: the size of resizedcore of the current row
    rPad,       \* CropResizeReader: the arguments BlackBorders got for the current row
    rFull,      \* CropResizeReader: the size of resizedfull of the current row
    rResized,   \* CropResizeReader: the local resized: its size and, per frame, the
                \*                   row it was taken from
    rErr,       \* CropResizeReader: the exception raised
    dArgs,      \* DebandReader: the rows of the file, fileExists
    dPc,        \* DebandReader: position: "call", "loop", "returned", "raised"
    dRow,       \* DebandReader: the number of rows read so far
    dFiltered,  \* DebandReader: the local filtered, a clip
    dErr,       \* DebandReader: the exception raised
    mArgs,      \* RGBMaskMerge: the arguments of the call
    mPc,        \* RGBMaskMerge: position: "call", "convert", "mask", "merge", ...
    mLimits,    \* RGBMaskMerge: Rmin, Rmax, Gmin, Gmax, Bmin, Bmax after the scaling
    mMask,      \* RGBMaskMerge: the local rgbmask (one sample)
    mOut,       \* RGBMaskMerge: the clip returned (one pixel: a sample per plane)
    mErr,       \* RGBMaskMerge: the exception raised
    fArgs,      \* the pure functions (scale, the gains of btb): the arguments
    fPc,        \* the pure functions: "call" or "done"
    fOut,       \* the pure functions: the value computed
    hArgs,      \* bbmod: the arguments of the call
    hPc,        \* bbmod: "idle", "call", "hfix", "vertical", "vfix", "return", "returned", "raised"
    hFiltered,  \* bbmod: the frame of filtered
    hStrips,    \* bbmod: the strips cropped off filtered, with bbmoda's thicknesses
    hSide,      \* bbmod: the strip bbmoda works on and the sides it has done
    hErr        \* bbmod: the exception raised, "none" if none

bvars == <<bArgs, bPc, bEdge, bC, bPos, bBand, bCells, bErr>>

cvars == <<cArgs, cPc, cEff, cSize, cCropeven, cBbCall, cOut, cErr>>

kvars == <<kArgs, kPc, kClip, kLog, kErr>>

rvars == <<rArgs, rPc, rZone, rFilled, rCoreArgs, rCore, rPad, rFull, rResized, rErr>>

dvars == <<dArgs, dPc, dRow, dFiltered, dErr>>

mvars == <<mArgs, mPc, mLimits, mMask, mOut, mErr>>

fvars == <<fArgs, fPc, fOut>>

hvars == <<hArgs, hPc, hFiltered, hStrips, hSide, hErr>>

vars == <<bvars, cvars, kvars, rvars, dvars, mvars, fvars, hvars>>

\* the variables of the components other than bbmoda, other than CropResize, ...
notB == <<cvars, kvars, rvars, dvars, mvars, fvars, hvars>>

notC == <<bvars, kvars, rvars, dvars, mvars, fvars, hvars>>

notK == <<bvars, cvars, rvars, dvars, mvars, fvars, hvars>>

notR == <<bvars, cvars, kvars, dvars, mvars, fvars, hvars>>

notD == <<bvars, cvars, kvars, rvars, mvars, fvars, hvars>>

notM == <<bvars, cvars, kvars, rvars, dvars, fvars, hvars>>

notF == <<bvars, cvars, kvars, rvars, dvars, mvars, hvars>>

notH == <<bvars, cvars, kvars, rvars, dvars, mvars, fvars>>

-----------------------------------------------------------------------------
(* Bounds of the model *)

\* frames are 1..MaxDim samples wide and high
MaxDim == 3

\* CropResize crops 0..MaxCrop samples from an edge
MaxCrop == 3

\* CropResize fills 0 or MaxFill samples at an edge
MaxFill == 2

\* BlackBorders is asked for borders of -2..MaxBorder samples
MaxBorder == 4

\* the clip CropResizeReader works on has NumFrames frames, 0..NumFrames-1
NumFrames == 4

-----------------------------------------------------------------------------
(* Scaling utility *)

Pow2(n) == 2 ^ n

\* (a variant of scale that shifts by the difference of the bit depths)
scaleByShift(val, bits) == val * Pow2(bits - 8)

\* scale(val, bits, bits_in=8): val * ((1 << bits) - 1) // ((1 << bits_in) - 1)
scale(val, bits) == (val * (Pow2(bits) - 1)) \div 255

\* the largest sample of a bit depth
PeakOf(bits) == Pow2(bits) - 1

\* the zero point of std.MakeDiff / std.MergeDiff on integer clips
HalfOf(bits) == Pow2(bits - 1)

Clamp(v, lo, hi) == IF v < lo THEN lo ELSE IF v > hi THEN hi ELSE v

Min2(a, b) == IF a < b THEN a ELSE b

Max2(a, b) == IF a > b THEN a ELSE b

-----------------------------------------------------------------------------
(* Grids and frames *)

Planes == {0, 1, 2}

HeightOf(g) == Len(g)

WidthOf(g) == IF Len(g) = 0 THEN 0 ELSE Len(g[1])

\* std.Transpose: out[i][j] = in[j][i]
Transpose(g) == [i \in 1..WidthOf(g) |-> [j \in 1..HeightOf(g) |-> g[j][i]]]

\* std.FlipHorizontal: every row reversed
FlipHorizontal(g) == [i \in 1..HeightOf(g) |-> [j \in 1..WidthOf(g) |-> g[i][WidthOf(g) + 1 - j]]]

\* std.FlipVertical: the rows in reverse order
FlipVertical(g) == [i \in 1..HeightOf(g) |-> g[HeightOf(g) + 1 - i]]

\* (a variant of RotateGrid with the two calls in the other order)
FlipThenTranspose(g) == Transpose(FlipHorizontal(g))

\* .std.Transpose().std.FlipHorizontal() on one grid
RotateGrid(g) == FlipHorizontal(Transpose(g))

\* .std.Transpose().std.FlipHorizontal() on a frame
Rotate(f) == [p \in DOMAIN f |-> RotateGrid(f[p])]

FrameHeight(f) == HeightOf(f[0])

FrameWidth(f) == WidthOf(f[0])

\* the grid of the cells' own coordinates
IdGrid(h, w) == [i \in 1..h |-> [j \in 1..w |-> <<i, j>>]]

-----------------------------------------------------------------------------
(* Test frames.  Samples are 8-bit reference levels scaled to the bit depth: *)
(* a dirty cell is darker (luma 24, chroma 120) than a clean one (32, 136).  *)

Patterns == {"rows", "cols", "corner"}

\* the cells of the pattern that hold the dirty level
Dirty(pat, i, j) ==
    CASE pat = "rows" -> i = 1
      [] pat = "cols" -> j = 1
      [] OTHER -> i = 1 /\ j = 1

Level(p, dirty, bits) ==
    IF p = 0 THEN scale(IF dirty THEN 24 ELSE 32, bits)
             ELSE scale(IF dirty THEN 120 ELSE 136, bits)

TestFrame(pat, h, w, bits) ==
    [p \in Planes |-> [i \in 1..h |-> [j \in 1..w |-> Level(p, Dirty(pat, i, j), bits)]]]

-----------------------------------------------------------------------------
(* bbmoda.btb: the single-edge operator (lines 191-246) *)

RowSet(row) == {row[j] : j \in 1..Len(row)}

RowMin(row) == CHOOSE v \in RowSet(row) : \A u \in RowSet(row) : v <= u

RowMax(row) == CHOOSE v \in RowSet(row) : \A u \in RowSet(row) : v >= u

\* resize.Bicubic(blurWidth * 2, ...).resize.Bicubic(cWidth * 2, ...) with
\* filter_param_a=1, filter_param_b=0: the cubic B-spline, whose weights are
\* non-negative and sum to one.  The kernel itself is an external collaborator;
\* its contract is that a blurred sample lies between the smallest and the
\* largest sample of its row (so a constant row stays constant).  The two
\* extreme functions with that contract are the kernels of the model; the rows
\* are blurred independently (the band keeps its height, cTop * 2).
Kernels == {"min", "max"}

Bicubic(row, kernel) == IF kernel = "min" THEN RowMin(row) ELSE RowMax(row)

\* mt_lut(clip, expr="2 * abs(x - scale128)", planes=[0]): std.Lut rewrites the
\* planes listed (plane 0 only, the default) and copies the others
mt_lut(row, p, bits) ==
    [j \in 1..Len(row) |->
        IF p = 0
        THEN Max2((16 * PeakOf(bits)) \div 256,
                  Min2(2 * (IF row[j] >= scale(128, bits) THEN row[j] - scale(128, bits)
                                                          ELSE scale(128, bits) - row[j]),
                       (235 * PeakOf(bits)) \div 256))
        ELSE row[j]]

\* floor(a / b + 1/2) for b > 0: std.Expr stores the float result rounded
RoundDiv(a, b) == (2 * a + b) \div (2 * b)

\* "z y / 8 min 0.4 max x m - * m +" with z = n + m', y = d + m': the gain n / d
\* clamped into [0.4, 8] (a float division by zero gives +inf or -inf, NaN is
\* taken as the lower clamp), applied to x around m; std.Expr clamps to the
\* sample range
Balance(n, d, x, m, bits) ==
    LET nn == IF d < 0 THEN 0 - n ELSE n
        dd == IF d < 0 THEN 0 - d ELSE d
        gn == IF dd = 0 THEN (IF n > 0 THEN 8 ELSE 2)
              ELSE IF nn > 8 * dd THEN 8
              ELSE IF 5 * nn < 2 * dd THEN 2
              ELSE nn
        gd == IF dd = 0 THEN (IF n > 0 THEN 1 ELSE 5)
              ELSE IF nn > 8 * dd THEN 1
              ELSE IF 5 * nn < 2 * dd THEN 5
              ELSE dd
    IN Clamp(RoundDiv(gn * (x - m), gd) + m, 0, PeakOf(bits))

\* balancedChroma (lines 223-225): plane 0 is copied (expr ""), planes 1 and 2
\* get expruv with y = originalBlurChroma, z = referenceBlurChroma
balancedChroma(x, p, refRow, origRow, bits, kernel) ==
    IF p = 0 THEN x
    ELSE Balance(Bicubic(mt_lut(refRow, p, bits), kernel),
                 Bicubic(mt_lut(origRow, p, bits), kernel),
                 x, scale(128, bits), bits)

\* balancedLuma (lines 226-229): yexpr on plane 0 around scale(16), "z y - x +"
\* on planes 1 and 2, with x = balancedChroma, y = originalBlur, z = referenceBlur
balancedLuma(x, p, refRow, origRow, bits, kernel) ==
    IF p = 0
    THEN Balance(Bicubic(refRow, kernel) - scale(16, bits),
                 Bicubic(origRow, kernel) - scale(16, bits),
                 balancedChroma(x, p, refRow, origRow, bits, kernel),
                 scale(16, bits), bits)
    ELSE Clamp(Bicubic(refRow, kernel) - Bicubic(origRow, kernel)
               + balancedChroma(x, p, refRow, origRow, bits, kernel), 0, PeakOf(bits))

\* std.MakeDiff on integer samples: a - b + half, clamped to the sample range
MakeDiff(a, b, bits) == Clamp(a - b + HalfOf(bits), 0, PeakOf(bits))

\* std.MergeDiff on integer samples: a + diff - half, clamped to the sample range
MergeDiff(a, diff, bits) == Clamp(a + diff - HalfOf(bits), 0, PeakOf(bits))

\* Tp = scale(128 + thresh, bits), the upper clamp of the difference
Tp(thresh, bits) == scale(128 + thresh, bits)

\* Tm = scale(128 - thresh, bits), the lower clamp of the difference
Tm(thresh, bits) == scale(128 - thresh, bits)

\* lines 231-238: the difference, limited by 'x Tp > Tp x ?' then 'x Tm < Tm x ?'
difference(bal, x, thresh, bits) ==
    LET d0 == MakeDiff(bal, x, bits)
        d1 == IF d0 > Tp(thresh, bits) THEN Clamp(Tp(thresh, bits), 0, PeakOf(bits)) ELSE d0
    IN IF d1 < Tm(thresh, bits) THEN Clamp(Tm(thresh, bits), 0, PeakOf(bits)) ELSE d1

\* (a variant of ClampTop that keeps one row more below the band)
ClampTopLow(f, cTop) == Min2(cTop, FrameHeight(f) - 2)

\* line 195: cTop = min(cTop, cHeight - 1)
ClampTop(f, cTop) == Min2(cTop, FrameHeight(f) - 1)

\* one sample of the corrected band: row i <= t of plane p; the reference is
\* the row right below the band (the 2-row seed strip of the doubled frame,
\* stretched over the band), the original is the band's own row
btbSample(f, p, i, j, t, thresh, bits, kernel) ==
    LET x == f[p][i][j]
        bal == balancedLuma(x, p, f[p][t + 1], f[p][i], bits, kernel)
    IN MergeDiff(x, difference(bal, x, thresh, bits), bits)

\* resize.Point to twice the width and height: every sample is copied to a
\* block of 2 x 2 samples
PointDouble(g) ==
    [i \in 1..(2 * HeightOf(g)) |->
        [j \in 1..(2 * WidthOf(g)) |-> g[(i + 1) \div 2][(j + 1) \div 2]]]

\* (a variant of PointHalve that samples one column to the right)
PointHalveShifted(g) ==
    [i \in 1..(HeightOf(g) \div 2) |->
        [j \in 1..(WidthOf(g) \div 2) |-> g[2 * i][Min2(2 * j + 1, WidthOf(g))]]]

\* resize.Point to half the width and height: the sample at the centre of
\* each block of 2 x 2 samples, which the nearest-neighbour rule takes from the
\* block's lower right sample
PointHalve(g) ==
    [i \in 1..(HeightOf(g) \div 2) |->
        [j \in 1..(WidthOf(g) \div 2) |-> g[2 * i][2 * j]]]

\* btb(c, cTop, thresh, blur) for a clamped thickness t >= 1.  c2 is the frame
\* doubled with resize.Point (line 198); the band is the first cTop * 2 rows of
\* c2 (original, line 213), corrected against the 2-row strip right below it
\* (lines 199-200); it is stacked on the other (cHeight - cTop) * 2 rows of c2
\* and the stack is halved with resize.Point (lines 242-244)
btb(f, cTop, thresh, bits, kernel) ==
    LET t == ClampTop(f, cTop)
        c2 == [p \in DOMAIN f |-> PointDouble(f[p])]
        last == [p \in DOMAIN f |->
                   [i \in 1..(2 * FrameHeight(f)) |->
                      [j \in 1..(2 * FrameWidth(f)) |->
                         IF i <= 2 * t
                         THEN btbSample(c2, p, i, j, 2 * t, thresh, bits, kernel)
                         ELSE c2[p][i][j]]]]
    IN [p \in DOMAIN f |-> PointHalve(last[p])]

-----------------------------------------------------------------------------
(* bbmoda (lines 152-257) *)

\* the thickness the k-th edge statement passes to btb: cTop, cLeft, cBottom, cRight
EdgeThickness(a, k) ==
    CASE k = 1 -> a.cTop
      [] k = 2 -> a.cLeft
      [] k = 3 -> a.cBottom
      [] OTHER -> a.cRight

\* (a variant of Corrects that also corrects a side of thickness 0)
CorrectsZero(th) == th >= 0

\* "if cTop > 0": the side is corrected, else it is only rotated
Corrects(th) == th > 0

\* (a variant of Rejected without the test of thresh)
RejectedNoThresh(a) ==
    IF ~a.isClip \/ a.sampleType # "INTEGER" THEN "TypeError"
    ELSE IF a.blur <= 0 THEN "ValueError"
    ELSE "none"

\* lines 179-189: the exception the checks of the arguments raise
Rejected(a) ==
    IF ~a.isClip THEN "TypeError"
    ELSE IF a.sampleType # "INTEGER" THEN "TypeError"
    ELSE IF a.blur <= 0 THEN "ValueError"
    ELSE IF a.thresh <= 0 THEN "ValueError"
    ELSE "none"

BIdleArgs ==
    [c |-> TestFrame("rows", 1, 1, 8), bits |-> 8, isClip |-> TRUE, sampleType |-> "INTEGER",
     cTop |-> 0, cBottom |-> 0, cLeft |-> 0, cRight |-> 0, thresh |-> 128, blur |-> 999,
     kernel |-> "min"]

\* bbmoda is not running
BIdle ==
    /\ bArgs = BIdleArgs
    /\ bPc = "idle"
    /\ bEdge = 0
    /\ bC = BIdleArgs.c
    /\ bPos = IdGrid(1, 1)
    /\ bBand = -1
    /\ bCells = {}
    /\ bErr = "none"

Thicknesses == {0, 1, MaxDim}

\* calls with arguments the checks accept
BGoodArgs ==
    {[c |-> TestFrame(pat, h, w, bits), bits |-> bits, isClip |-> TRUE,
      sampleType |-> "INTEGER", cTop |-> t, cBottom |-> b, cLeft |-> l, cRight |-> r,
      thresh |-> th, blur |-> 20, kernel |-> k] :
        pat \in Patterns, h \in 1..MaxDim, w \in 1..MaxDim, bits \in {8, 10, 16},
        t \in Thicknesses, b \in Thicknesses, l \in Thicknesses, r \in Thicknesses,
        th \in {1, 128}, k \in Kernels}

\* calls with at least one argument the checks refuse (on one frame)
BBadArgs ==
    {[c |-> TestFrame("corner", 2, MaxDim, 8), bits |-> 8, isClip |-> ic,
      sampleType |-> st, cTop |-> t, cBottom |-> b, cLeft |-> l, cRight |-> r,
      thresh |-> th, blur |-> bl, kernel |-> "min"] :
        ic \in BOOLEAN, st \in {"INTEGER", "FLOAT"},
        t \in {0, 1}, b \in {0, 1}, l \in {0, 1}, r \in {0, 1},
        th \in {-1, 0, 1}, bl \in {-1, 0, 20}}

\* a call of bbmoda
BCall ==
    /\ bArgs \in BGoodArgs \cup BBadArgs
    /\ bPc = "call"
    /\ bEdge = 0
    /\ bC = bArgs.c
    /\ bPos = IdGrid(FrameHeight(bArgs.c), FrameWidth(bArgs.c))
    /\ bBand = -1
    /\ bCells = {}
    /\ bErr = "none"

\* lines 179-189
BbmodaCheck ==
    /\ bPc = "call"
    /\ bErr' = Rejected(bArgs)
    /\ bPc' = IF Rejected(bArgs) = "none" THEN "edges" ELSE "raised"
    /\ UNCHANGED <<bArgs, bEdge, bC, bPos, bBand, bCells>>
    /\ UNCHANGED notB

\* one of the statements of lines 248-255 with a thickness > 0: btb, then
\* Transpose and FlipHorizontal.  A clamped thickness of 0 (a buffer one row
\* high) asks resize.Point for a clip of height 0, which VapourSynth refuses.
BtbEdge ==
    /\ bPc = "edges"
    /\ bEdge < 4
    /\ Corrects(EdgeThickness(bArgs, bEdge + 1))
    /\ LET th == EdgeThickness(bArgs, bEdge + 1)
           t == ClampTop(bC, th)
       IN IF t < 1
          THEN /\ bPc' = "raised"
               /\ bErr' = "Error"
               /\ UNCHANGED <<bArgs, bEdge, bC, bPos, bBand, bCells>>
          ELSE /\ bC' = Rotate(btb(bC, th, bArgs.thresh, bArgs.bits, bArgs.kernel))
               /\ bPos' = RotateGrid(bPos)
               /\ bBand' = t
               /\ bCells' = {bPos[i][j] : i \in 1..t, j \in 1..FrameWidth(bC)}
               /\ bEdge' = bEdge + 1
               /\ UNCHANGED <<bArgs, bPc, bErr>>
    /\ UNCHANGED notB

\* one of the statements of lines 248-255 with a thickness <= 0: the rotation alone
SkipEdge ==
    /\ bPc = "edges"
    /\ bEdge < 4
    /\ ~Corrects(EdgeThickness(bArgs, bEdge + 1))
    /\ bC' = Rotate(bC)
    /\ bPos' = RotateGrid(bPos)
    /\ bBand' = -1
    /\ bCells' = {}
    /\ bEdge' = bEdge + 1
    /\ UNCHANGED <<bArgs, bPc, bErr>>
    /\ UNCHANGED notB

\* line 257: return c
BbmodaReturn ==
    /\ bPc = "edges"
    /\ bEdge = 4
    /\ bPc' = "returned"
    /\ UNCHANGED <<bArgs, bEdge, bC, bPos, bBand, bCells, bErr>>
    /\ UNCHANGED notB

BalanceNext == BbmodaCheck \/ BtbEdge \/ SkipEdge \/ BbmodaReturn

-----------------------------------------------------------------------------
(* Properties of bbmoda *)

InH == FrameHeight(bArgs.c)

InW == FrameWidth(bArgs.c)

Abs(v) == IF v < 0 THEN 0 - v ELSE v

\* the input sample of the input cell that cell <<i, j>> of c stands for
InputSample(p, i, j) == bArgs.c[p][bPos[i][j][1]][bPos[i][j][2]]

BRunning == bPc \in {"edges", "returned"}

AllThicknessZero ==
    bArgs.cTop = 0 /\ bArgs.cBottom = 0 /\ bArgs.cLeft = 0 /\ bArgs.cRight = 0

\* C1: every sample bbmoda holds or returns differs from the input sample at
\* the same position and plane by at most scale(thresh, bits)
C1_DeviationWithinThresh ==
    BRunning =>
        \A p \in Planes : \A i \in 1..FrameHeight(bC) : \A j \in 1..FrameWidth(bC) :
            Abs(bC[p][i][j] - InputSample(p, i, j)) <= scale(bArgs.thresh, bArgs.bits)

\* C2: with the four thicknesses 0 and arguments the checks accept, bbmoda
\* raises nothing, every edge statement only moves the samples (each cell holds
\* the input sample of the input cell it stands for), and the frame returned
\* is the input frame, in its orientation and size
C2_ZeroThicknessIdentity ==
    (AllThicknessZero /\ Rejected(bArgs) = "none") =>
        /\ bErr = "none"
        /\ bBand = -1
        /\ \A p \in Planes : \A i \in 1..FrameHeight(bC) : \A j \in 1..FrameWidth(bC) :
               bC[p][i][j] = InputSample(p, i, j)
        /\ bPc = "returned" => bC = bArgs.c

C2_Witness ==
    /\ bPc = "returned"
    /\ AllThicknessZero
    /\ InH = 2 /\ InW = 3
    /\ bArgs.c[0][1][1] # bArgs.c[0][2][3]

\* C8: once the checks of the arguments ran, bbmoda has raised TypeError for a
\* value that is no clip or no integer clip, ValueError for blur <= 0 or
\* thresh <= 0, and nothing otherwise; when it raised, no edge statement ran and
\* the frame is untouched, whatever the thicknesses
C8_ChecksBeforeProcessing ==
    bPc # "call" =>
        LET badType == ~bArgs.isClip \/ bArgs.sampleType # "INTEGER"
            badValue == bArgs.blur <= 0 \/ bArgs.thresh <= 0
        IN /\ badType => (bPc = "raised" /\ bErr = "TypeError")
           /\ (~badType /\ badValue) => (bPc = "raised" /\ bErr = "ValueError")
           /\ (badType \/ badValue) => (bEdge = 0 /\ bC = bArgs.c /\ bBand = -1)
           /\ (~badType /\ ~badValue) => bErr \notin {"TypeError", "ValueError"}

C8_Witness ==
    /\ bPc = "raised"
    /\ bErr = "ValueError"
    /\ AllThicknessZero
    /\ bArgs.thresh = 0
    /\ bArgs.blur > 0

\* the input cells of the band of thickness t along the k-th edge in the order
\* top, left, bottom, right
EdgeCells(k, t) ==
    CASE k = 1 -> {<<r, c>> : r \in 1..t, c \in 1..InW}
      [] k = 2 -> {<<r, c>> : r \in 1..InH, c \in 1..t}
      [] k = 3 -> {<<r, c>> : r \in (InH - t + 1)..InH, c \in 1..InW}
      [] OTHER -> {<<r, c>> : r \in 1..InH, c \in (InW - t + 1)..InW}

\* the thickness the claim pairs with the k-th edge
PairedThickness(k) ==
    CASE k = 1 -> bArgs.cTop
      [] k = 2 -> bArgs.cLeft
      [] k = 3 -> bArgs.cBottom
      [] OTHER -> bArgs.cRight

\* C9: the band the k-th edge statement hands to btb as the top band is, in the
\* coordinates of the input, the band along the top (k = 1), left (2), bottom
\* (3), right (4) edge, its thickness comes from cTop, cLeft, cBottom, cRight
\* in that order, and the frame returned is in the input's orientation
C9_EdgeOrder ==
    /\ (BRunning /\ bBand >= 1) =>
           /\ bCells = EdgeCells(bEdge, bBand)
           /\ PairedThickness(bEdge) >= bBand
    /\ (BRunning /\ bEdge >= 1 /\ bBand = -1) => PairedThickness(bEdge) <= 0
    /\ bPc = "returned" => bPos = IdGrid(InH, InW)

C9_Witness ==
    /\ bPc = "returned"
    /\ bBand = 1
    /\ InH = 2 /\ InW = 3
    /\ bArgs.cTop = 1 /\ bArgs.cLeft = 1 /\ bArgs.cBottom = 1 /\ bArgs.cRight = 1
    /\ bCells = {<<1, 3>>, <<2, 3>>}

\* the extent of the input frame perpendicular to the k-th edge
PerpDim(k) == IF k \in {1, 3} THEN InH ELSE InW

\* C10: the thickness btb works with on the k-th edge is
\* min(requested, dimension - 1); for a request >= 1 on a dimension >= 2 it is
\* at least 1, the seed row (the row below the band) is a row of the frame and
\* at least one row stays below the band; btb fails only on a dimension < 2
C10_ThicknessClamped ==
    /\ (BRunning /\ bBand # -1) =>
           /\ bBand = Min2(PairedThickness(bEdge), PerpDim(bEdge) - 1)
           /\ bBand >= 1
           /\ bBand + 1 <= PerpDim(bEdge)
           /\ PerpDim(bEdge) - bBand >= 1
    /\ bErr = "Error" => (PerpDim(bEdge + 1) < 2 /\ PairedThickness(bEdge + 1) >= 1)
    /\ (BRunning /\ bEdge >= 1 /\ PairedThickness(bEdge) >= 1 /\ PerpDim(bEdge) >= 2)
           => bBand >= 1

C10_Witness ==
    /\ BRunning
    /\ bEdge = 2
    /\ InH = 3 /\ InW = 2
    /\ bArgs.cLeft = MaxDim
    /\ bBand = 1

\* the thickness of the band along the k-th edge: 0 for an edge that is not
\* corrected, else the request clamped to the dimension - 1
ClampedThickness(k) ==
    IF PairedThickness(k) <= 0 THEN 0 ELSE Min2(PairedThickness(k), PerpDim(k) - 1)

\* the input cells at least a band's thickness away from every edge
Middle ==
    {<<r, c>> : r \in (ClampedThickness(1) + 1)..(InH - ClampedThickness(3)),
                c \in (ClampedThickness(2) + 1)..(InW - ClampedThickness(4))}

\* C19: every sample bbmoda holds or returns that stands for an input cell of
\* the middle has the value of the input sample, on every plane, after every
\* edge statement, for every thresh and every frame of the model
C19_MiddleUnchanged ==
    BRunning =>
        \A p \in Planes : \A i \in 1..FrameHeight(bC) : \A j \in 1..FrameWidth(bC) :
            bPos[i][j] \in Middle => bC[p][i][j] = InputSample(p, i, j)

\* bbmoda returned a frame whose top and left bands changed and whose middle
\* holds samples that differ from one another
C19_Witness ==
    /\ bPc = "returned"
    /\ InH = 3 /\ InW = 3
    /\ bArgs.cTop = 1 /\ bArgs.cLeft = 1 /\ bArgs.cBottom = 0 /\ bArgs.cRight = 1
    /\ Middle = {<<2, 2>>, <<3, 2>>}
    /\ bC # bArgs.c
    /\ bC[0][2][2] = bArgs.c[0][2][2]

-----------------------------------------------------------------------------
(* CropResize (lines 317-444).  The clip is its geometry: W x H samples of  *)
(* depth bits.  A target width or height of 0 stands for None.              *)

\* Python's round(n / d) for d > 0: to the nearest integer, ties to the even one
PyRound(n, d) ==
    LET q == n \div d
        r == n % d
    IN IF 2 * r < d THEN q
       ELSE IF 2 * r > d THEN q + 1
       ELSE IF q % 2 = 0 THEN q ELSE q + 1

\* the resizer names of the model; "<callable>" stands for a lambda
Callable == "<callable>"

\* (a variant of Lower that keeps the capitals)
LowerKeepsCase(r) == r

\* str.lower() on the names of the model
Lower(r) ==
    CASE r = "Spline36" -> "spline36"
      [] r = "BICUBIC" -> "bicubic"
      [] OTHER -> r

InternalResizers == {"bilinear", "bicubic", "point", "lanczos", "spline16", "spline36"}

\* (a variant of FillError that leaves out the bottom edge)
FillErrorThreeEdges(a) ==
    IF Len(a.fill) = 4
    THEN IF a.left - a.fill[1] >= 0 /\ a.right - a.fill[2] >= 0 /\ a.top - a.fill[3] >= 0
         THEN "none" ELSE "ValueError"
    ELSE "TypeError"

\* lines 337-347: the check of fill against the crop
FillError(a) ==
    IF Len(a.fill) = 4
    THEN IF a.left - a.fill[1] >= 0 /\ a.right - a.fill[2] >= 0
            /\ a.top - a.fill[3] >= 0 /\ a.bottom - a.fill[4] >= 0
         THEN "none" ELSE "ValueError"
    ELSE "TypeError"

\* lines 340-343: left, right, top, bottom after the fill is taken off
EffCrop(a) ==
    [left |-> a.left - a.fill[1], right |-> a.right - a.fill[2],
     top |-> a.top - a.fill[3], bottom |-> a.bottom - a.fill[4]]

\* (a variant of Remainders that leaves odd crops as they are)
RemaindersNone(e) == [lr |-> 0, rr |-> 0, tr |-> 0, br |-> 0]

\* lines 349-352: lr, rr, tr, br
Remainders(e) ==
    [lr |-> e.left % 2, rr |-> e.right % 2, tr |-> e.top % 2, br |-> e.bottom % 2]

\* (a variant of Ratios that, with no target, scales the window to the input size)
RatiosToInput(a, e) ==
    IF a.width = 0 /\ a.height = 0
    THEN [wn |-> a.W, wd |-> a.W - e.left - e.right, hn |-> a.H, hd |-> a.H - e.top - e.bottom]
    ELSE IF a.width = 0
         THEN [wn |-> a.height, wd |-> a.H - e.top - e.bottom,
               hn |-> a.height, hd |-> a.H - e.top - e.bottom]
    ELSE IF a.height = 0
         THEN [wn |-> a.width, wd |-> a.W - e.left - e.right,
               hn |-> a.width, hd |-> a.W - e.left - e.right]
    ELSE [wn |-> a.width, wd |-> a.W, hn |-> a.height, hd |-> a.H]

\* lines 354-364: rw and rh as fractions n / d
Ratios(a, e) ==
    IF a.width = 0 /\ a.height = 0 THEN [wn |-> 1, wd |-> 1, hn |-> 1, hd |-> 1]
    ELSE IF a.width = 0
         THEN [wn |-> a.height, wd |-> a.H - e.top - e.bottom,
               hn |-> a.height, hd |-> a.H - e.top - e.bottom]
    ELSE IF a.height = 0
         THEN [wn |-> a.width, wd |-> a.W - e.left - e.right,
               hn |-> a.width, hd |-> a.W - e.left - e.right]
    ELSE [wn |-> a.width, wd |-> a.W, hn |-> a.height, hd |-> a.H]

\* (a variant of OutWidth without the rounding to an even number)
OutWidthExact(a, e) ==
    ((a.W - e.left - e.right) * Ratios(a, e).wn) \div Ratios(a, e).wd

\* line 366: w = round(((clip.width - left - right) * rw) / 2) * 2
OutWidth(a, e) ==
    PyRound((a.W - e.left - e.right) * Ratios(a, e).wn, 2 * Ratios(a, e).wd) * 2

\* line 367: h = round(((clip.height - top - bottom) * rh) / 2) * 2
OutHeight(a, e) ==
    PyRound((a.H - e.top - e.bottom) * Ratios(a, e).hn, 2 * Ratios(a, e).hd) * 2

\* lines 369-374: the check of the length of bb
BbError(a) == IF a.bbGiven /\ Len(a.bb) \notin {4, 6} THEN "TypeError" ELSE "none"

\* std.Crop on a window of the input clip (x0, y0: its origin in the input)
Crop(win, l, r, t, b) ==
    [x0 |-> win.x0 + l, y0 |-> win.y0 + t, w |-> win.w - l - r, h |-> win.h - t - b]

\* line 376: cropeven, the crop by the even parts
CropEven(a, e) ==
    Crop([x0 |-> 0, y0 |-> 0, w |-> a.W, h |-> a.H],
         e.left - Remainders(e).lr, e.right - Remainders(e).rr,
         e.top - Remainders(e).tr, e.bottom - Remainders(e).br)

\* lines 378-379: the columns and rows fb.FillBorders fills (the size is kept)
FillBordersArgs(a, e) ==
    [left |-> Remainders(e).lr + a.fill[1], right |-> Remainders(e).rr + a.fill[2],
     top |-> Remainders(e).tr + a.fill[3], bottom |-> Remainders(e).br + a.fill[4]]

\* lines 389-392: the keywords of the call of bbmod.  bb is rebuilt with the
\* remainder and the fill added (389-390), and the call adds the remainder again
BbmodKeywords(a, e) ==
    [c |-> "cropeven",
     cTop |-> a.bb[3] + Remainders(e).tr + a.fill[3] + Remainders(e).tr,
     cBottom |-> a.bb[4] + Remainders(e).br + a.fill[4] + Remainders(e).br,
     cLeft |-> a.bb[1] + Remainders(e).lr + a.fill[1] + Remainders(e).lr,
     cRight |-> a.bb[2] + Remainders(e).rr + a.fill[2] + Remainders(e).rr,
     thresh |-> IF Len(a.bb) = 6 THEN a.bb[5] ELSE 128,
     blur |-> IF Len(a.bb) = 6 THEN a.bb[6] ELSE 999]

\* the parameters of bbmod (line 56)
BbmodParams ==
    {"clip", "top", "bottom", "left", "right", "blur", "cTop", "cBottom", "cLeft", "cRight"}

\* a call with a keyword that is no parameter of the function raises TypeError
CallError(keywords, params) == IF keywords \subseteq params THEN "none" ELSE "TypeError"

\* lines 395, 402, ...: "lr or tr or rr or br != 0 and bits == 16"; Python
\* binds != and "and" tighter than "or"
UsesFmtc(a, e) ==
    \/ Remainders(e).lr # 0
    \/ Remainders(e).tr # 0
    \/ Remainders(e).rr # 0
    \/ (Remainders(e).br # 0 /\ a.bits = 16)

\* lines 394-442: resizer.lower() is evaluated first (a function has no
\* attribute lower); a string that is none of the six names raises TypeError
ResizerError(a) ==
    IF a.resizer = Callable THEN "AttributeError"
    ELSE IF Lower(a.resizer) \in InternalResizers THEN "none"
    ELSE "TypeError"

\* (a variant of SrcWindow that leaves out src_left and src_top)
SrcWindowNoOrigin(a, e) ==
    [x0 |-> CropEven(a, e).x0, y0 |-> CropEven(a, e).y0,
     w |-> CropEven(a, e).w - Remainders(e).lr - Remainders(e).rr,
     h |-> CropEven(a, e).h - Remainders(e).tr - Remainders(e).br]

\* src_left = lr, src_top = tr, src_width = cropeven.width - lr - rr,
\* src_height = cropeven.height - tr - br (sx, sy, sw, sh for fmtc.resample):
\* the window the resampler reads, in the coordinates of the input clip
SrcWindow(a, e) ==
    [x0 |-> CropEven(a, e).x0 + Remainders(e).lr,
     y0 |-> CropEven(a, e).y0 + Remainders(e).tr,
     w |-> CropEven(a, e).w - Remainders(e).lr - Remainders(e).rr,
     h |-> CropEven(a, e).h - Remainders(e).tr - Remainders(e).br]

\* the clip CropResize returns: its size, the kernel and the plugin that made
\* it, and the window of the input it was sampled from
Resized(a, e) ==
    [w |-> OutWidth(a, e), h |-> OutHeight(a, e), kernel |-> Lower(a.resizer),
     plugin |-> IF UsesFmtc(a, e) THEN "fmtc" ELSE "resize", src |-> SrcWindow(a, e)]

\* the exception a whole call of CropResize ends with ("none": it returns)
CropResizeError(a) ==
    IF FillError(a) # "none" THEN FillError(a)
    ELSE IF BbError(a) # "none" THEN BbError(a)
    ELSE IF a.bbGiven /\ CallError(DOMAIN BbmodKeywords(a, EffCrop(a)), BbmodParams) # "none"
         THEN CallError(DOMAIN BbmodKeywords(a, EffCrop(a)), BbmodParams)
    ELSE ResizerError(a)

NoWindow == [x0 |-> 0, y0 |-> 0, w |-> 0, h |-> 0]

NoCrop == [left |-> 0, right |-> 0, top |-> 0, bottom |-> 0]

NoClip == [w |-> 0, h |-> 0, kernel |-> "", plugin |-> "", src |-> NoWindow]

CIdleArgs ==
    [W |-> 16, H |-> 12, bits |-> 8, width |-> 0, height |-> 0,
     left |-> 0, right |-> 0, top |-> 0, bottom |-> 0,
     bbGiven |-> FALSE, bb |-> <<>>, fill |-> <<0, 0, 0, 0>>, resizer |-> "spline36"]

\* CropResize is not running
CIdle ==
    /\ cArgs = CIdleArgs
    /\ cPc = "idle"
    /\ cEff = NoCrop
    /\ cSize = [w |-> 0, h |-> 0]
    /\ cCropeven = [win |-> NoWindow, filled |-> NoCrop]
    /\ cBbCall = [c |-> "none"]
    /\ cOut = NoClip
    /\ cErr = "none"

\* calls that vary the crop, the fill and the target size
CGeometryArgs ==
    {[CIdleArgs EXCEPT !.left = l, !.right = r, !.top = t, !.bottom = b,
                       !.fill = <<fl, fr, ft, fb>>, !.width = tw, !.height = th] :
        l \in 0..MaxCrop, r \in 0..MaxCrop, t \in 0..MaxCrop, b \in 0..MaxCrop,
        fl \in {0, MaxFill}, fr \in {0, MaxFill}, ft \in {0, MaxFill}, fb \in {0, MaxFill},
        tw \in {0, 8}, th \in {0, 6}}

\* calls that vary the resizer, the bit depth and the parity of the crop
CResizerArgs ==
    {[CIdleArgs EXCEPT !.left = l, !.right = r, !.top = t, !.bottom = b,
                       !.bits = bits, !.resizer = rs] :
        l \in {0, 1}, r \in {0, 1}, t \in {0, 1}, b \in {0, 1}, bits \in {8, 10, 16},
        rs \in InternalResizers \cup {"Spline36", "BICUBIC", "nearest", Callable}}

\* calls with bb, and calls with a fill that has not four entries
COtherArgs ==
    {[CIdleArgs EXCEPT !.left = l, !.right = r, !.top = t, !.bottom = b,
                       !.bbGiven = TRUE, !.bb = bb, !.fill = <<fl, 0, 0, 0>>] :
        l \in {1, 2}, r \in {0, 1}, t \in {0, 1}, b \in {0, 1}, fl \in {0, 1},
        bb \in {<<1, 1, 1, 1>>, <<1, 2, 3, 4, 16, 20>>, <<1, 1, 1, 1, 16>>}}
    \cup {[CIdleArgs EXCEPT !.left = l, !.fill = f] :
             l \in {0, 1}, f \in {<<0, 0, 0>>, <<>>}}

\* a call of CropResize
CCall ==
    /\ cArgs \in CGeometryArgs \cup CResizerArgs \cup COtherArgs
    /\ cPc = "call"
    /\ cEff = NoCrop
    /\ cSize = [w |-> 0, h |-> 0]
    /\ cCropeven = [win |-> NoWindow, filled |-> NoCrop]
    /\ cBbCall = [c |-> "none"]
    /\ cOut = NoClip
    /\ cErr = "none"

\* lines 337-347
CrCheckFill ==
    /\ cPc = "call"
    /\ cErr' = FillError(cArgs)
    /\ IF FillError(cArgs) = "none"
       THEN cPc' = "geometry" /\ cEff' = EffCrop(cArgs)
       ELSE cPc' = "raised" /\ UNCHANGED cEff
    /\ UNCHANGED <<cArgs, cSize, cCropeven, cBbCall, cOut>>
    /\ UNCHANGED notC

\* lines 349-374: the remainders, the ratios, w and h, the length of bb
CrGeometry ==
    /\ cPc = "geometry"
    /\ cSize' = [w |-> OutWidth(cArgs, cEff), h |-> OutHeight(cArgs, cEff)]
    /\ cErr' = BbError(cArgs)
    /\ cPc' = IF BbError(cArgs) = "none" THEN "crop" ELSE "raised"
    /\ UNCHANGED <<cArgs, cEff, cCropeven, cBbCall, cOut>>
    /\ UNCHANGED notC

\* lines 376-379: std.Crop and fb.FillBorders
CrCropFill ==
    /\ cPc = "crop"
    /\ cCropeven' = [win |-> CropEven(cArgs, cEff), filled |-> FillBordersArgs(cArgs, cEff)]
    /\ cPc' = IF cArgs.bbGiven THEN "bbmod" ELSE "resize"
    /\ UNCHANGED <<cArgs, cEff, cSize, cBbCall, cOut, cErr>>
    /\ UNCHANGED notC

\* lines 388-392: the call of bbmod
CrBbmod ==
    /\ cPc = "bbmod"
    /\ cBbCall' = BbmodKeywords(cArgs, cEff)
    /\ cErr' = CallError(DOMAIN BbmodKeywords(cArgs, cEff), BbmodParams)
    /\ cPc' = IF CallError(DOMAIN BbmodKeywords(cArgs, cEff), BbmodParams) = "none"
              THEN "resize" ELSE "raised"
    /\ UNCHANGED <<cArgs, cEff, cSize, cCropeven, cOut>>
    /\ UNCHANGED notC

\* lines 394-444: the choice of the resizer and the return
CrResize ==
    /\ cPc = "resize"
    /\ cErr' = ResizerError(cArgs)
    /\ IF ResizerError(cArgs) = "none"
       THEN cPc' = "returned" /\ cOut' = Resized(cArgs, cEff)
       ELSE cPc' = "raised" /\ UNCHANGED cOut
    /\ UNCHANGED <<cArgs, cEff, cSize, cCropeven, cBbCall>>
    /\ UNCHANGED notC

CropNext == CrCheckFill \/ CrGeometry \/ CrCropFill \/ CrBbmod \/ CrResize

-----------------------------------------------------------------------------
(* Properties of CropResize *)

\* C3: once the check of lines 337-347 ran on a fill of four entries,
\* CropResize has raised ValueError ('filling exceeds cropping') and returns no
\* clip exactly when the fill exceeds the crop on at least one of the four
\* edges
C3_FillExceedsCrop ==
    (cPc # "call" /\ Len(cArgs.fill) = 4) =>
        LET exceeds == \/ cArgs.fill[1] > cArgs.left
                       \/ cArgs.fill[2] > cArgs.right
                       \/ cArgs.fill[3] > cArgs.top
                       \/ cArgs.fill[4] > cArgs.bottom
        IN /\ exceeds <=> cErr = "ValueError"
           /\ exceeds => (cPc = "raised" /\ cOut = NoClip)

C3_Witness ==
    /\ cPc = "raised"
    /\ cErr = "ValueError"
    /\ cArgs.fill = <<0, 0, 0, MaxFill>>
    /\ cArgs.bottom = 1
    /\ cArgs.left = MaxCrop

\* C7: the window the resampler of a returned clip read starts, in the
\* coordinates of the input clip, at (left - fill_left, top - fill_top) and is
\* (W - (left - fill_left) - (right - fill_right)) wide and
\* (H - (top - fill_top) - (bottom - fill_bottom)) high
C7_SourceWindow ==
    cPc = "returned" =>
        cOut.src = [x0 |-> cArgs.left - cArgs.fill[1],
                    y0 |-> cArgs.top - cArgs.fill[3],
                    w |-> cArgs.W - (cArgs.left - cArgs.fill[1]) - (cArgs.right - cArgs.fill[2]),
                    h |-> cArgs.H - (cArgs.top - cArgs.fill[3]) - (cArgs.bottom - cArgs.fill[4])]

C7_Witness ==
    /\ cPc = "returned"
    /\ cArgs.left = 3 /\ cArgs.right = 0 /\ cArgs.top = 3 /\ cArgs.bottom = 2
    /\ cArgs.fill = <<0, 0, MaxFill, 0>>
    /\ cOut.src.x0 = 3
    /\ cCropeven.win.x0 = 2

\* C11 as stated: a clip returned by a call with neither width nor height has
\* the width and the height of the input clip
C11_OutputEqualsInput ==
    (cPc = "returned" /\ cArgs.width = 0 /\ cArgs.height = 0) =>
        (cOut.w = cArgs.W /\ cOut.h = cArgs.H)

\* C11, amended: a clip returned by a call with neither width nor height has
\* the size of the window left by the crop less the fill, each dimension
\* rounded to an even number: equal to the window's when that is even, one off
\* when it is odd
C11_OutputIsCropWindow ==
    (cPc = "returned" /\ cArgs.width = 0 /\ cArgs.height = 0) =>
        LET sw == cArgs.W - (cArgs.left - cArgs.fill[1]) - (cArgs.right - cArgs.fill[2])
            sh == cArgs.H - (cArgs.top - cArgs.fill[3]) - (cArgs.bottom - cArgs.fill[4])
        IN /\ cOut.w % 2 = 0 /\ cOut.h % 2 = 0
           /\ cOut.w - sw \in {-1, 0, 1}
           /\ cOut.h - sh \in {-1, 0, 1}

\* a call with neither width nor height returned a clip narrower and lower
\* than the input clip
C11_Witness ==
    /\ cPc = "returned"
    /\ cArgs.width = 0 /\ cArgs.height = 0
    /\ cArgs.left = 2 /\ cArgs.right = 1 /\ cArgs.top = 3 /\ cArgs.bottom = 0
    /\ cArgs.fill = <<0, 0, MaxFill, 0>>
    /\ cOut.w = cArgs.W - 4
    /\ cOut.h = cArgs.H

\* C12: once w and h are computed (lines 366-367) both are even, whatever
\* the crop, the fill and the targets given (none, width, height, both)
C12_EvenOutputSize ==
    cPc \in {"crop", "bbmod", "resize", "returned"} =>
        /\ cSize.w % 2 = 0
        /\ cSize.h % 2 = 0
        /\ cPc = "returned" => (cOut.w = cSize.w /\ cOut.h = cSize.h)

\* a clip was returned for an odd window and a target width alone
C12_Witness ==
    /\ cPc = "returned"
    /\ cArgs.width = 8 /\ cArgs.height = 0
    /\ cArgs.left = 1 /\ cArgs.right = 0 /\ cArgs.top = 3 /\ cArgs.bottom = 0
    /\ cArgs.fill = <<0, 0, 0, 0>>
    /\ cOut.w = 8 /\ cOut.h = 4

\* C13: the thicknesses in the call of bbmod are, edge by edge, the requested
\* thickness plus the remainder of the edge plus the fill of the edge
C13_BalanceThickness ==
    cBbCall.c # "none" =>
        /\ cBbCall.cLeft = cArgs.bb[1] + Remainders(cEff).lr + cArgs.fill[1]
        /\ cBbCall.cRight = cArgs.bb[2] + Remainders(cEff).rr + cArgs.fill[2]
        /\ cBbCall.cTop = cArgs.bb[3] + Remainders(cEff).tr + cArgs.fill[3]
        /\ cBbCall.cBottom = cArgs.bb[4] + Remainders(cEff).br + cArgs.fill[4]

\* the resizer strings of the model that spell one of the six names in some case
SixNamesAnyCase ==
    {"point", "bilinear", "bicubic", "lanczos", "spline16", "spline36", "Spline36", "BICUBIC"}

\* C14: a call without bb that passed the check of fill, with a string as
\* resizer, has ended with the TypeError of line 440 and no clip exactly when
\* the string is none of the six names in any case; for the six names it
\* returned a clip
C14_UnknownResizerRejected ==
    (/\ cPc \in {"returned", "raised"}
     /\ FillError(cArgs) = "none"
     /\ ~cArgs.bbGiven
     /\ cArgs.resizer # Callable) =>
        /\ (cArgs.resizer \notin SixNamesAnyCase)
              <=> (cPc = "raised" /\ cErr = "TypeError" /\ cOut = NoClip)
        /\ (cArgs.resizer \in SixNamesAnyCase) <=> (cPc = "returned" /\ cErr = "none")

\* a call with a resizer string that is no name ended with TypeError after the
\* crop and the fill
C14_Witness ==
    /\ cPc = "raised"
    /\ cErr = "TypeError"
    /\ cArgs.resizer = "nearest"
    /\ ~cArgs.bbGiven
    /\ cArgs.bits = 16
    /\ cCropeven.filled = [left |-> 1, right |-> 0, top |-> 1, bottom |-> 0]

\* C15: a call without bb that passed the check of fill, with a callable as
\* resizer, returns a clip and raises nothing
C15_CallableApplied ==
    (/\ cPc \in {"returned", "raised"}
     /\ FillError(cArgs) = "none"
     /\ ~cArgs.bbGiven
     /\ cArgs.resizer = Callable) =>
        (cPc = "returned" /\ cErr = "none")

\* C21: once std.Crop and fb.FillBorders ran in a call with a fill of four
\* entries that passed the check, the columns / rows std.Crop removed on each
\* edge are (crop - fill) - ((crop - fill) mod 2), an even number >= 0, and
\* fb.FillBorders got ((crop - fill) mod 2) + fill on that edge
C21_EvenCropThenFill ==
    cPc \in {"bbmod", "resize", "returned"} =>
        LET net == [left |-> cArgs.left - cArgs.fill[1], right |-> cArgs.right - cArgs.fill[2],
                    top |-> cArgs.top - cArgs.fill[3], bottom |-> cArgs.bottom - cArgs.fill[4]]
            fill == [left |-> cArgs.fill[1], right |-> cArgs.fill[2],
                     top |-> cArgs.fill[3], bottom |-> cArgs.fill[4]]
            removed == [left |-> cCropeven.win.x0,
                        right |-> cArgs.W - cCropeven.win.x0 - cCropeven.win.w,
                        top |-> cCropeven.win.y0,
                        bottom |-> cArgs.H - cCropeven.win.y0 - cCropeven.win.h]
        IN \A e \in {"left", "right", "top", "bottom"} :
              /\ removed[e] = net[e] - (net[e] % 2)
              /\ removed[e] % 2 = 0
              /\ removed[e] >= 0
              /\ cCropeven.filled[e] = (net[e] % 2) + fill[e]

\* std.Crop and fb.FillBorders ran for an odd net crop on the left and a fill
\* on the top
C21_Witness ==
    /\ cPc = "resize"
    /\ cArgs.left = 3 /\ cArgs.right = 1 /\ cArgs.top = 2 /\ cArgs.bottom = 0
    /\ cArgs.fill = <<0, 0, MaxFill, 0>>
    /\ cCropeven.win.x0 = 2
    /\ cCropeven.filled = [left |-> 1, right |-> 1, top |-> MaxFill, bottom |-> 0]

\* C26: a clip CropResize returned was resampled by fmtc.resample exactly when
\* the clip has 16 bits and one of the four parity remainders lr, rr, tr, br is
\* not 0, and by the resizer of the resize plugin in every other case
C26_FmtcOnlyAtSixteenBits ==
    cPc = "returned" =>
        (cOut.plugin = "fmtc"
            <=> /\ cArgs.bits = 16
                /\ \/ Remainders(cEff).lr # 0
                   \/ Remainders(cEff).rr # 0
                   \/ Remainders(cEff).tr # 0
                   \/ Remainders(cEff).br # 0)

-----------------------------------------------------------------------------
(* BlackBorders (lines 260-314).  The clip is its size, w x h.               *)

\* (a variant of ParityError that reads the horizontal borders only)
ParityErrorLeftRight(a) ==
    IF a.left % 2 = 0 /\ a.right % 2 = 0 THEN "none" ELSE "ValueError"

\* lines 269-270: the border sizes must be mod 2
ParityError(a) ==
    IF a.left % 2 = 0 /\ a.right % 2 = 0 /\ a.top % 2 = 0 /\ a.bottom % 2 = 0
    THEN "none" ELSE "ValueError"

\* the parameters of FixColumnBrightness (line 29); FixRowBrightness (line 40)
\* has row in the place of column
FixBrightnessParams(line) == {"clip", line, "min_in", "max_in", "min_out", "max_out"}

\* the keywords BlackBorders calls them with (lines 281-284, 294-297, 307-310)
FixBrightnessKeywords(line) ==
    {"clip", line, "input_low", "input_high", "output_low", "output_high", "scale_inputs"}

\* the exception of the two brightness calls that follow the mirrored strip
MirrorError(line) == CallError(FixBrightnessKeywords(line), FixBrightnessParams(line))

\* std.AddBorders and the stacks: the size after n more columns / rows
Widened(clip, n) == [clip EXCEPT !.w = clip.w + n]

Heightened(clip, n) == [clip EXCEPT !.h = clip.h + n]

\* the exception a whole call of BlackBorders ends with ("none": it returns)
BlackBordersError(a) ==
    IF ParityError(a) # "none" THEN ParityError(a)
    ELSE IF a.right > 0 /\ MirrorError("column") # "none" THEN MirrorError("column")
    ELSE IF (a.top > 0 \/ a.bottom > 0) /\ MirrorError("row") # "none" THEN MirrorError("row")
    ELSE "none"

\* the size of the clip BlackBorders returns
BlackBordersSize(a) ==
    [w |-> a.W + (IF a.left > 0 THEN a.left ELSE 0) + (IF a.right > 0 THEN a.right ELSE 0),
     h |-> a.H + (IF a.top > 0 THEN a.top ELSE 0) + (IF a.bottom > 0 THEN a.bottom ELSE 0)]

KIdleArgs == [W |-> 8, H |-> 6, left |-> 0, right |-> 0, top |-> 0, bottom |-> 0]

\* BlackBorders is not running
KIdle ==
    /\ kArgs = KIdleArgs
    /\ kPc = "idle"
    /\ kClip = [w |-> 0, h |-> 0]
    /\ kLog = <<>>
    /\ kErr = "none"

\* a call of BlackBorders; the reader can pass a negative right or bottom
KCall ==
    /\ kArgs \in {[KIdleArgs EXCEPT !.left = l, !.right = r, !.top = t, !.bottom = b] :
                     l \in -2..MaxBorder, r \in -2..MaxBorder,
                     t \in -2..MaxBorder, b \in -2..MaxBorder}
    /\ kPc = "call"
    /\ kClip = [w |-> kArgs.W, h |-> kArgs.H]
    /\ kLog = <<>>
    /\ kErr = "none"

\* lines 269-270
KCheck ==
    /\ kPc = "call"
    /\ kErr' = ParityError(kArgs)
    /\ kPc' = IF ParityError(kArgs) = "none" THEN "left" ELSE "raised"
    /\ UNCHANGED <<kArgs, kClip, kLog>>
    /\ UNCHANGED notK

\* lines 272-273: the left border is a plain std.AddBorders
KLeft ==
    /\ kPc = "left"
    /\ IF kArgs.left > 0
       THEN /\ kClip' = Widened(kClip, kArgs.left)
            /\ kLog' = Append(kLog, <<"AddBorders", "left", kArgs.left>>)
       ELSE UNCHANGED <<kClip, kLog>>
    /\ kPc' = "right"
    /\ UNCHANGED <<kArgs, kErr>>
    /\ UNCHANGED notK

\* one of the blocks of lines 275-286, 288-299, 301-312 for the edge `side`
\* of thickness n: the 2 innermost columns / rows are copied, flipped,
\* desaturated and stacked, then the two brightness calls follow, then
\* std.AddBorders for the n - 2 columns / rows left
KMirror(side, n, line, next) ==
    /\ kPc = side
    /\ IF n > 0
       THEN IF MirrorError(line) # "none"
            THEN /\ kErr' = MirrorError(line)
                 /\ kPc' = "raised"
                 /\ kLog' = Append(kLog, <<"mirror", side, 2>>)
                 /\ UNCHANGED kClip
            ELSE /\ kClip' = IF line = "column" THEN Widened(kClip, n) ELSE Heightened(kClip, n)
                 /\ kLog' = IF n > 2
                            THEN kLog \o << <<"mirror", side, 2>>, <<"level", side, 2>>,
                                            <<"AddBorders", side, n - 2>> >>
                            ELSE kLog \o << <<"mirror", side, 2>>, <<"level", side, 2>> >>
                 /\ kPc' = next
                 /\ UNCHANGED kErr
       ELSE /\ kPc' = next
            /\ UNCHANGED <<kClip, kLog, kErr>>
    /\ UNCHANGED kArgs
    /\ UNCHANGED notK

\* lines 275-286
KRight == KMirror("right", kArgs.right, "column", "top")

\* lines 288-299
KTop == KMirror("top", kArgs.top, "row", "bottom")

\* lines 301-312
KBottom == KMirror("bottom", kArgs.bottom, "row", "return")

\* line 314
KReturn ==
    /\ kPc = "return"
    /\ kPc' = "returned"
    /\ UNCHANGED <<kArgs, kClip, kLog, kErr>>
    /\ UNCHANGED notK

BordersNext == KCheck \/ KLeft \/ KRight \/ KTop \/ KBottom \/ KReturn

-----------------------------------------------------------------------------
(* Properties of BlackBorders *)

AllEven ==
    kArgs.left % 2 = 0 /\ kArgs.right % 2 = 0 /\ kArgs.top % 2 = 0 /\ kArgs.bottom % 2 = 0

\* C4: once the check of lines 269-270 ran, BlackBorders has raised ValueError
\* exactly when one of left, right, top, bottom is odd, and then no border was
\* added; with four even sizes it never raises ValueError
C4_OddBorderRejected ==
    kPc # "call" =>
        /\ ~AllEven <=> kErr = "ValueError"
        /\ ~AllEven => (kPc = "raised" /\ kLog = <<>> /\ kClip = [w |-> kArgs.W, h |-> kArgs.H])

C4_Witness ==
    /\ kPc = "raised"
    /\ kErr = "ValueError"
    /\ kArgs.left = 2 /\ kArgs.right = 0 /\ kArgs.top = 0 /\ kArgs.bottom = 3

\* C20: BlackBorders raises no TypeError, and every flat extension
\* (std.AddBorders) it made on an edge fills the thickness - 2 left after the
\* mirrored strip of 2 and the brightness match on that same edge; the edges
\* come in the order left, right, top, bottom
C20_EveryEdgeMirrored ==
    /\ kErr # "TypeError"
    /\ \A k \in 1..Len(kLog) :
           kLog[k][1] = "AddBorders" =>
               /\ k > 2
               /\ kLog[k - 2] = <<"mirror", kLog[k][2], 2>>
               /\ kLog[k - 1] = <<"level", kLog[k][2], 2>>
               /\ kLog[k][3] = kArgs[kLog[k][2]] - 2

-----------------------------------------------------------------------------
(* CropResizeReader (lines 452-608).  The clip has NumFrames frames of      *)
(* W x H samples (16 bits); a schedule is the list of its rows, a row the   *)
(* list of its fields (start, end, left, right, top, bottom and, in a row   *)
(* of 10 fields, the four fills).  A frame of the output is named by the    *)
(* row whose clip it was taken from (0: the clip resized with the default   *)
(* parameters, line 512).  row, column and cfill are not passed.            *)

\* lines 478-490: width, height and the ratios rw, rh as fractions n / d
ReaderTarget(a) ==
    IF a.width = 0 /\ a.height = 0
    THEN [width |-> a.W, height |-> a.H, wn |-> 1, wd |-> 1, hn |-> 1, hd |-> 1]
    ELSE IF a.width = 0
         THEN [width |-> PyRound(a.W * a.height, 2 * a.H) * 2, height |-> a.height,
               wn |-> a.height, wd |-> a.H, hn |-> a.height, hd |-> a.H]
    ELSE IF a.height = 0
         THEN [width |-> a.width, height |-> PyRound(a.H * a.width, 2 * a.W) * 2,
               wn |-> a.width, wd |-> a.W, hn |-> a.width, hd |-> a.W]
    ELSE [width |-> a.width, height |-> a.height,
          wn |-> a.width, wd |-> a.W, hn |-> a.height, hd |-> a.H]

\* lines 500-510: the keywords of the call of bbmod on the whole clip; bb is
\* [cLeft, cRight, cTop, cBottom, thresh, blur], FixUncrop is [left, right,
\* top, bottom], and an edge whose FixUncrop is False gets the thickness 0
SetupBbmodKeywords(a) ==
    [c |-> "filtered",
     cTop |-> IF a.fixUncrop[3] THEN a.bb[3] ELSE 0,
     cBottom |-> IF a.fixUncrop[4] THEN a.bb[4] ELSE 0,
     cLeft |-> IF a.fixUncrop[1] THEN a.bb[1] ELSE 0,
     cRight |-> IF a.fixUncrop[2] THEN a.bb[2] ELSE 0,
     thresh |-> IF Len(a.bb) = 6 THEN a.bb[5] ELSE 128,
     blur |-> IF Len(a.bb) = 6 THEN a.bb[6] ELSE 999]

\* lines 475-510: FixUncrop must have 4 entries; with bb, bbmod is called on
\* the whole clip with the keywords c, cTop, cBottom, cLeft, cRight, thresh, blur
SetupError(a) ==
    IF Len(a.fixUncrop) # 4 THEN "TypeError"
    ELSE IF a.bbGiven /\ Len(a.bb) \notin {4, 6} THEN "TypeError"
    ELSE IF a.bbGiven
         THEN CallError(DOMAIN SetupBbmodKeywords(a), BbmodParams)
    ELSE "none"

\* lines 518-521 read zone[2..5] (IndexError on a shorter row), lines 589-594
\* accept 6 or 10 fields
RowError(zone) ==
    IF Len(zone) < 6 THEN "IndexError"
    ELSE IF Len(zone) \notin {6, 10} THEN "TypeError"
    ELSE "none"

\* lines 518-521: cl, cr, ct, cb as read from the row
RowCrop(zone) == [left |-> zone[3], right |-> zone[4], top |-> zone[5], bottom |-> zone[6]]

\* (a variant of FilledInPlace that fills crops below fill_max only)
FilledBelowMax(c, fill_max) == c > 0 /\ c < fill_max

\* lines 565, 571, 577, 583: "cl > 0 and cl <= fill_max"
FilledInPlace(c, fill_max) == c > 0 /\ c <= fill_max

\* lines 565-587: the columns / rows fb.FillBorders fills in place
InPlaceFill(zone, fill_max) ==
    [e \in {"left", "right", "top", "bottom"} |->
        IF FilledInPlace(RowCrop(zone)[e], fill_max) THEN RowCrop(zone)[e] ELSE 0]

\* lines 565-587: cl, cr, ct, cb after the edges filled in place are reset
PassedCrop(zone, fill_max) ==
    [e \in {"left", "right", "top", "bottom"} |->
        IF FilledInPlace(RowCrop(zone)[e], fill_max) THEN 0 ELSE RowCrop(zone)[e]]

\* lines 589-592: fill
RowFill(zone) ==
    IF Len(zone) = 10 THEN <<zone[7], zone[8], zone[9], zone[10]>> ELSE <<0, 0, 0, 0>>

\* lines 596-597: the arguments of the call of CropResize (bbtemp is None
\* whenever the loop is reached)
CoreArgs(a, zone) ==
    [W |-> a.W, H |-> a.H, bits |-> 16,
     width |-> ReaderTarget(a).width, height |-> ReaderTarget(a).height,
     left |-> PassedCrop(zone, a.fill_max).left, right |-> PassedCrop(zone, a.fill_max).right,
     top |-> PassedCrop(zone, a.fill_max).top, bottom |-> PassedCrop(zone, a.fill_max).bottom,
     bbGiven |-> FALSE, bb |-> <<>>, fill |-> RowFill(zone), resizer |-> a.resizer]

\* line 599: x = round((cl * rw) / 2) * 2
PadX(a, zone) ==
    PyRound(PassedCrop(zone, a.fill_max).left * ReaderTarget(a).wn, 2 * ReaderTarget(a).wd) * 2

\* line 600: y = round((ct * rh) / 2) * 2
PadY(a, zone) ==
    PyRound(PassedCrop(zone, a.fill_max).top * ReaderTarget(a).hn, 2 * ReaderTarget(a).hd) * 2

\* lines 601-602: the arguments of the call of BlackBorders on resizedcore
PadArgs(a, zone, core) ==
    [W |-> core.w, H |-> core.h,
     left |-> PadX(a, zone), right |-> ReaderTarget(a).width - core.w - PadX(a, zone),
     top |-> PadY(a, zone), bottom |-> ReaderTarget(a).height - core.h - PadY(a, zone)]

\* (a variant of Mappings that names the start frame alone)
MappingsStartOnly(zone) == [first |-> zone[1], last |-> zone[1]]

\* line 604: maps = "[" + zone[0] + " " + zone[1] + "]"
Mappings(zone) == [first |-> zone[1], last |-> zone[2]]

\* fvf.ReplaceFramesSimple: the frames first..last (inclusive) of base are
\* replaced by those of the other clip
ReplaceFrames(frames, tag, maps) ==
    [n \in DOMAIN frames |-> IF maps.first <= n /\ n <= maps.last THEN tag ELSE frames[n]]

Frames == 0..(NumFrames - 1)

RIdleArgs ==
    [W |-> 16, H |-> 12, width |-> 0, height |-> 0, fill_max |-> 2,
     bbGiven |-> FALSE, bb |-> <<>>, fixUncrop |-> <<FALSE, FALSE, FALSE, FALSE>>,
     resizer |-> "spline36",
     fileExists |-> TRUE, zones |-> <<>>]

NoSize == [w |-> 0, h |-> 0]

\* CropResizeReader is not running
RIdle ==
    /\ rArgs = RIdleArgs
    /\ rPc = "idle"
    /\ rZone = 0
    /\ rFilled = NoCrop
    /\ rCoreArgs = CIdleArgs
    /\ rCore = NoSize
    /\ rPad = KIdleArgs
    /\ rFull = NoSize
    /\ rResized = [size |-> NoSize, frames |-> [n \in Frames |-> 0]]
    /\ rErr = "none"

\* schedules of one row over the whole clip, of 6 or of 10 fields
ROneRow ==
    {<< <<0, NumFrames - 1, l, r, t, b>> >> :
        l \in 0..MaxCrop, r \in 0..MaxCrop, t \in 0..MaxCrop, b \in 0..MaxCrop}
    \cup {<< <<0, NumFrames - 1, l, r, t, 0, fl, 0, ft, 0>> >> :
             l \in 0..MaxCrop, r \in 0..MaxCrop, t \in 0..MaxCrop,
             fl \in {0, 1, MaxFill}, ft \in {0, MaxFill}}

\* rows over every range of frames, with a few crops
RangeRows ==
    {<<s, e>> \o c : s \in Frames, e \in Frames,
                     c \in {<<0, 0, 0, 0>>, <<2, 0, 0, 0>>, <<1, 2, 2, 1>>, <<4, 0, 0, 0>>}}

\* schedules of no row and of two rows
RTwoRows == {<<>>} \cup {<<z1, z2>> : z1 \in {z \in RangeRows : z[1] <= z[2]},
                                      z2 \in {z \in RangeRows : z[1] <= z[2]}}

\* schedules with a row that has not 6 or 10 fields, alone or after a good row
RBadRows ==
    {<<z>> : z \in {<<0, 1, 2, 2, 2>>, <<0, 1, 2, 2, 2, 2, 0>>, <<>>, <<0, 1, 2, 2, 2, 2, 0, 0, 0, 0, 0>>}}
    \cup {<< <<0, 1, 2, 2, 2, 2>>, z>> :
             z \in {<<0, 1, 2, 2, 2>>, <<0, 1, 2, 2, 2, 2, 0>>, <<>>}}

\* a call of CropResizeReader
RCall ==
    /\ rArgs \in
          {[RIdleArgs EXCEPT !.zones = zs, !.fill_max = fm, !.width = tg[1], !.height = tg[2]] :
              zs \in ROneRow, fm \in {0, 2}, tg \in {<<0, 0>>, <<8, 6>>, <<0, 6>>}}
          \cup {[RIdleArgs EXCEPT !.zones = zs, !.fill_max = fm] :
                   zs \in RTwoRows \cup RBadRows, fm \in {0, 2}}
          \cup {[RIdleArgs EXCEPT !.zones = << <<0, 1, 2, 0, 0, 0>> >>, !.bbGiven = bg, !.bb = bb,
                                  !.fixUncrop = fu, !.resizer = rs, !.fileExists = fe] :
                   bg \in BOOLEAN, bb \in {<<1, 1, 1, 1>>, <<1, 1, 1, 1, 16>>},
                   fu \in {<<FALSE, FALSE, FALSE, FALSE>>, <<TRUE, FALSE, TRUE, FALSE>>,
                           <<FALSE, FALSE, FALSE>>},
                   rs \in {"spline36", "nearest"}, fe \in BOOLEAN}
    /\ rPc = "call"
    /\ rZone = 0
    /\ rFilled = NoCrop
    /\ rCoreArgs = CIdleArgs
    /\ rCore = NoSize
    /\ rPad = KIdleArgs
    /\ rFull = NoSize
    /\ rResized = [size |-> NoSize, frames |-> [n \in Frames |-> 0]]
    /\ rErr = "none"

\* lines 475-512: the checks, bbmod on the whole clip, the default resize
RSetup ==
    /\ rPc = "call"
    /\ rErr' = SetupError(rArgs)
    /\ IF SetupError(rArgs) = "none"
       THEN /\ rPc' = "open"
            /\ rResized' = [size |-> [w |-> ReaderTarget(rArgs).width,
                                      h |-> ReaderTarget(rArgs).height],
                            frames |-> [n \in Frames |-> 0]]
       ELSE rPc' = "raised" /\ UNCHANGED rResized
    /\ UNCHANGED <<rArgs, rZone, rFilled, rCoreArgs, rCore, rPad, rFull>>
    /\ UNCHANGED notR

\* line 514: open(csvfile)
ROpen ==
    /\ rPc = "open"
    /\ IF rArgs.fileExists
       THEN rPc' = "loop" /\ UNCHANGED rErr
       ELSE rPc' = "raised" /\ rErr' = "FileNotFoundError"
    /\ UNCHANGED <<rArgs, rZone, rFilled, rCoreArgs, rCore, rPad, rFull, rResized>>
    /\ UNCHANGED notR

\* lines 516-594: the next row of the schedule is read; the fills in place
\* (lines 565-587) come before the check of the number of fields
RNextRow ==
    /\ rPc = "loop"
    /\ rZone < Len(rArgs.zones)
    /\ rZone' = rZone + 1
    /\ rErr' = RowError(rArgs.zones[rZone + 1])
    /\ rPc' = IF RowError(rArgs.zones[rZone + 1]) = "none" THEN "resize" ELSE "raised"
    /\ rFilled' = IF RowError(rArgs.zones[rZone + 1]) = "IndexError"
                  THEN rFilled
                  ELSE InPlaceFill(rArgs.zones[rZone + 1], rArgs.fill_max)
    /\ UNCHANGED <<rArgs, rCoreArgs, rCore, rPad, rFull, rResized>>
    /\ UNCHANGED notR

\* lines 596-597: resizedcore = CropResize(...)
RCropResize ==
    /\ rPc = "resize"
    /\ LET ca == CoreArgs(rArgs, rArgs.zones[rZone])
       IN /\ rCoreArgs' = ca
          /\ rErr' = CropResizeError(ca)
          /\ IF CropResizeError(ca) = "none"
             THEN /\ rCore' = [w |-> Resized(ca, EffCrop(ca)).w, h |-> Resized(ca, EffCrop(ca)).h]
                  /\ rPc' = "pad"
             ELSE rPc' = "raised" /\ UNCHANGED rCore
    /\ UNCHANGED <<rArgs, rZone, rFilled, rPad, rFull, rResized>>
    /\ UNCHANGED notR

\* lines 599-602: resizedfull = BlackBorders(resizedcore, ...)
RBlackBorders ==
    /\ rPc = "pad"
    /\ LET pa == PadArgs(rArgs, rArgs.zones[rZone], rCore)
       IN /\ rPad' = pa
          /\ rErr' = BlackBordersError(pa)
          /\ IF BlackBordersError(pa) = "none"
             THEN rFull' = BlackBordersSize(pa) /\ rPc' = "replace"
             ELSE rPc' = "raised" /\ UNCHANGED rFull
    /\ UNCHANGED <<rArgs, rZone, rFilled, rCoreArgs, rCore, rResized>>
    /\ UNCHANGED notR

\* lines 604-606: the frames of the row's range are taken from resizedfull;
\* clips of different sizes cannot be spliced
RReplace ==
    /\ rPc = "replace"
    /\ IF rFull = rResized.size
       THEN /\ rResized' = [rResized EXCEPT
                               !.frames = ReplaceFrames(@, rZone, Mappings(rArgs.zones[rZone]))]
            /\ rPc' = "loop"
            /\ UNCHANGED rErr
       ELSE /\ rErr' = "Error"
            /\ rPc' = "raised"
            /\ UNCHANGED rResized
    /\ UNCHANGED <<rArgs, rZone, rFilled, rCoreArgs, rCore, rPad, rFull>>
    /\ UNCHANGED notR

\* line 608: return resized
RReturn ==
    /\ rPc = "loop"
    /\ rZone = Len(rArgs.zones)
    /\ rPc' = "returned"
    /\ UNCHANGED <<rArgs, rZone, rFilled, rCoreArgs, rCore, rPad, rFull, rResized, rErr>>
    /\ UNCHANGED notR

ReaderNext ==
    RSetup \/ ROpen \/ RNextRow \/ RCropResize \/ RBlackBorders \/ RReplace \/ RReturn

-----------------------------------------------------------------------------
(* Properties of CropResizeReader *)

\* the rows among the first k of the schedule whose range [start, end] holds frame n
Covering(n, k) == {i \in 1..k : rArgs.zones[i][1] <= n /\ n <= rArgs.zones[i][2]}

\* the last of them in file order, 0 when there is none
LastCovering(n, k) ==
    IF Covering(n, k) = {} THEN 0
    ELSE CHOOSE i \in Covering(n, k) : \A j \in Covering(n, k) : j <= i

\* C5: whenever the loop of CropResizeReader is between two rows, and when the
\* function has returned, every frame n of resized is taken from the clip of the
\* last row read so far whose range [start, end] holds n, and from the clip
\* resized with the default parameters when no row read so far holds n
C5_LastZoneWins ==
    rPc \in {"loop", "returned"} =>
        \A n \in Frames : rResized.frames[n] = LastCovering(n, rZone)

\* CropResizeReader returned for a schedule of two rows whose ranges overlap
\* without being equal, with a frame that no row holds
C5_Witness ==
    /\ rPc = "returned"
    /\ Len(rArgs.zones) = 2
    /\ \E n \in Frames : Covering(n, 2) = {1, 2}
    /\ \E n \in Frames : Covering(n, 2) = {1}
    /\ \E n \in Frames : Covering(n, 2) = {}

\* C6: whenever CropResizeReader is about to pad resizedcore, the padding it
\* passes to BlackBorders is non-negative on every side, BlackBorders accepts
\* it, and the padded clip has exactly the target width and height
C6_PaddedToTarget ==
    rPc = "pad" =>
        LET pa == PadArgs(rArgs, rArgs.zones[rZone], rCore)
        IN /\ pa.left >= 0 /\ pa.right >= 0 /\ pa.top >= 0 /\ pa.bottom >= 0
           /\ BlackBordersError(pa) = "none"
           /\ BlackBordersSize(pa) = [w |-> ReaderTarget(rArgs).width,
                                      h |-> ReaderTarget(rArgs).height]

\* C16: once a row with a number of fields other than 6 or 10 is read,
\* CropResizeReader has raised the TypeError of line 594 ('csv file not
\* valid') and returns no clip; a row of 6 or 10 fields does not raise on
\* being read
C16_BadRowRejected ==
    rZone >= 1 =>
        /\ Len(rArgs.zones[rZone]) \notin {6, 10} => (rPc = "raised" /\ rErr = "TypeError")
        /\ (Len(rArgs.zones[rZone]) \in {6, 10} /\ rPc = "resize") => rErr = "none"

\* C17: once CropResize was called for a row, on each edge with crop c read
\* from the row: if 0 < c <= fill_max, c columns / rows were filled in place
\* and CropResize got the crop 0; if c > fill_max, nothing was filled in place
\* and CropResize got the crop c; and the offsets x, y that BlackBorders got are
\* computed from the crop passed on (0 for an edge filled in place)
C17_SmallCropFilledInPlace ==
    rPc \in {"pad", "replace"} =>
        LET zone == rArgs.zones[rZone]
            t == ReaderTarget(rArgs)
        IN /\ \A e \in {"left", "right", "top", "bottom"} :
                 LET c == RowCrop(zone)[e]
                 IN /\ (0 < c /\ c <= rArgs.fill_max) => (rFilled[e] = c /\ rCoreArgs[e] = 0)
                    /\ c > rArgs.fill_max => (rFilled[e] = 0 /\ rCoreArgs[e] = c)
                    /\ c = 0 => (rFilled[e] = 0 /\ rCoreArgs[e] = 0)
           /\ rPc = "replace" =>
                 /\ rPad.left = PyRound(rCoreArgs.left * t.wn, 2 * t.wd) * 2
                 /\ rPad.top = PyRound(rCoreArgs.top * t.hn, 2 * t.hd) * 2
                 /\ rFilled.left > 0 => rPad.left = 0
                 /\ rFilled.top > 0 => rPad.top = 0

\* BlackBorders returned for a row whose left crop is above fill_max and whose
\* other crops are filled in place
C17_Witness ==
    /\ rPc = "replace"
    /\ rArgs.fill_max = 2
    /\ RowCrop(rArgs.zones[rZone]) = [left |-> 3, right |-> 2, top |-> 1, bottom |-> 2]
    /\ rFilled = [left |-> 0, right |-> 2, top |-> 1, bottom |-> 2]
    /\ rCoreArgs.left = 3 /\ rCoreArgs.right = 0
    /\ rPad.left = 4

\* C18: with bb of 4 or 6 entries and FixUncrop of 4, the balancing of the
\* whole clip (the frames that no row holds) is applied: the call of bbmod of
\* lines 509-510 returns and CropResizeReader goes on to the file
C18_BalanceApplied ==
    (/\ rPc \notin {"idle", "call"}
     /\ rArgs.bbGiven
     /\ Len(rArgs.bb) \in {4, 6}
     /\ Len(rArgs.fixUncrop) = 4) =>
        ~(rPc = "raised" /\ rZone = 0 /\ rErr = "TypeError")

-----------------------------------------------------------------------------
(* DebandReader (lines 611-633).  A frame is the list of the deband         *)
(* strengths applied to the input frame, in order (<<>>: the input frame);  *)
(* a clip is a function from the frame numbers to frames.                   *)

\* the input clip
InputClip == [n \in Frames |-> <<>>]

\* core.f3kdb.Deband(clip, y=strength, cb=strength, cr=strength, ...)
Deband(clip, strength) == [n \in DOMAIN clip |-> Append(clip[n], strength)]

\* (a variant of DebandSource that debands the result of the rows before)
DebandSourceFiltered(clip, filtered) == filtered

\* line 627: the clip handed to f3kdb.Deband is the argument clip
DebandSource(clip, filtered) == clip

\* fvf.ReplaceFramesSimple(clipa, clipb, mappings="[first last]"): the frames
\* first..last (inclusive) are taken from clipb, the others from clipa
ReplaceFramesSimple(clipa, clipb, maps) ==
    [n \in DOMAIN clipa |-> IF maps.first <= n /\ n <= maps.last THEN clipb[n] ELSE clipa[n]]

\* line 625: strength = row[2]
DebandRowError(row) == IF Len(row) < 3 THEN "IndexError" ELSE "none"

DIdleArgs == [fileExists |-> TRUE, rows |-> <<>>]

\* DebandReader is not running
DIdle ==
    /\ dArgs = DIdleArgs
    /\ dPc = "idle"
    /\ dRow = 0
    /\ dFiltered = InputClip
    /\ dErr = "none"

Strengths == {32, 48}

\* the rows <start> <end> <strength> over every range of frames
DebandRows == {<<s, e, g>> : s \in Frames, e \in Frames, g \in Strengths}

\* files of no row, one row and two rows, and files with a row that is too short
DebandFiles ==
    {<<>>}
    \cup {<<r>> : r \in {z \in DebandRows : z[1] <= z[2]}}
    \cup {<<r1, r2>> : r1 \in {z \in DebandRows : z[1] <= z[2]},
                       r2 \in {z \in DebandRows : z[1] <= z[2]}}
    \cup {<< <<0, 1, 32>>, <<1, 2>> >>, << <<0, 1>> >>}

\* a call of DebandReader
DCall ==
    /\ dArgs \in {[fileExists |-> fe, rows |-> rs] : fe \in BOOLEAN, rs \in DebandFiles}
    /\ dPc = "call"
    /\ dRow = 0
    /\ dFiltered = InputClip
    /\ dErr = "none"

\* lines 621-623: filtered = clip, open(csvfile)
DOpen ==
    /\ dPc = "call"
    /\ IF dArgs.fileExists
       THEN dPc' = "loop" /\ UNCHANGED dErr
       ELSE dPc' = "raised" /\ dErr' = "FileNotFoundError"
    /\ UNCHANGED <<dArgs, dRow, dFiltered>>
    /\ UNCHANGED notD

\* lines 624-631: one row: the deband of clip replaces the frames of the range
DNextRow ==
    /\ dPc = "loop"
    /\ dRow < Len(dArgs.rows)
    /\ dRow' = dRow + 1
    /\ LET row == dArgs.rows[dRow + 1]
       IN IF DebandRowError(row) # "none"
          THEN /\ dErr' = DebandRowError(row)
               /\ dPc' = "raised"
               /\ UNCHANGED dFiltered
          ELSE /\ dFiltered' = ReplaceFramesSimple(dFiltered,
                                                   Deband(DebandSource(InputClip, dFiltered), row[3]),
                                                   Mappings(row))
               /\ UNCHANGED <<dPc, dErr>>
    /\ UNCHANGED dArgs
    /\ UNCHANGED notD

\* line 633: return filtered
DReturn ==
    /\ dPc = "loop"
    /\ dRow = Len(dArgs.rows)
    /\ dPc' = "returned"
    /\ UNCHANGED <<dArgs, dRow, dFiltered, dErr>>
    /\ UNCHANGED notD

DebandNext == DOpen \/ DNextRow \/ DReturn

-----------------------------------------------------------------------------
(* Properties of DebandReader *)

\* the rows among the first k of the file whose range [start, end] holds frame n
DebandCovering(n, k) == {i \in 1..k : dArgs.rows[i][1] <= n /\ n <= dArgs.rows[i][2]}

\* C22: between two rows and at the return, the clip has the frames of the
\* input clip, in number and order; a frame in no range read so far is the
\* input frame, and a frame in a range is the input frame debanded once, at the
\* strength of the last row read so far whose range holds it
C22_LastRowDebandsOriginal ==
    dPc \in {"loop", "returned"} =>
        /\ DOMAIN dFiltered = Frames
        /\ \A n \in Frames :
              IF DebandCovering(n, dRow) = {}
              THEN dFiltered[n] = <<>>
              ELSE LET last == CHOOSE i \in DebandCovering(n, dRow) :
                                   \A j \in DebandCovering(n, dRow) : j <= i
                   IN dFiltered[n] = <<dArgs.rows[last][3]>>

\* DebandReader returned for two rows of different strengths whose ranges
\* overlap, with a frame in the first range alone and a frame in none
C22_Witness ==
    /\ dPc = "returned"
    /\ Len(dArgs.rows) = 2
    /\ dArgs.rows[1][3] # dArgs.rows[2][3]
    /\ \E n \in Frames : DebandCovering(n, 2) = {1, 2}
    /\ \E n \in Frames : DebandCovering(n, 2) = {1}
    /\ \E n \in Frames : DebandCovering(n, 2) = {}

-----------------------------------------------------------------------------
(* RGBMaskMerge (lines 660-697; src/awsmfunc/legacy.py 42-86 is the same     *)
(* code).  A clip is one pixel: a sample for each of the planes Y, U, V.     *)
(* The conversion of clipa to RGB (resize.Point, matrix 709) is an external  *)
(* collaborator: the call carries the R, G, B samples it yields for the      *)
(* pixel of clipa.                                                           *)

\* lines 669-675: the six limits, scaled from 8 bits when scale_inputs is True
ScaledLimits(a) ==
    IF a.scale_inputs
    THEN [k \in DOMAIN a.limits |-> scale(a.limits[k], a.bits)]
    ELSE a.limits

\* lines 677-684: only 8, 10 and 16 bits have an RGB format here
ConvertError(a) == IF a.bits \in {8, 10, 16} THEN "none" ELSE "TypeError"

\* lines 689-691: "x Rmin > x Rmax < y Gmin > y Gmax < z Bmin > z Bmax <
\* and and and and and p 0 ?"
RgbMask(rgb, lim, bits) ==
    IF /\ rgb[1] > lim.Rmin /\ rgb[1] < lim.Rmax
       /\ rgb[2] > lim.Gmin /\ rgb[2] < lim.Gmax
       /\ rgb[3] > lim.Bmin /\ rgb[3] < lim.Bmax
    THEN PeakOf(bits) ELSE 0

\* std.MaskedMerge with a mask of one plane: every plane of clipa is blended
\* towards clipb by mask / peak (peak: clipb, 0: clipa)
MaskedMerge(clipa, clipb, mask, bits) ==
    [p \in Planes |-> clipa[p] + ((clipb[p] - clipa[p]) * mask) \div PeakOf(bits)]

\* std.ShufflePlanes(clips, planes=[0, 1, 2], colorfamily=YUV): plane k of
\* clips[k + 1] becomes plane k
ShufflePlanes(clips) == [p \in Planes |-> clips[p + 1][p]]

MIdleArgs ==
    [bits |-> 8, scale_inputs |-> FALSE, clipa |-> [p \in Planes |-> 0],
     clipb |-> [p \in Planes |-> 0], rgb |-> <<0, 0, 0>>,
     limits |-> [Rmin |-> 0, Rmax |-> 0, Gmin |-> 0, Gmax |-> 0, Bmin |-> 0, Bmax |-> 0]]

\* RGBMaskMerge is not running
MIdle ==
    /\ mArgs = MIdleArgs
    /\ mPc = "idle"
    /\ mLimits = MIdleArgs.limits
    /\ mMask = -1
    /\ mOut = MIdleArgs.clipa
    /\ mErr = "none"

\* the pixels of the model: clipa and clipb differ on the planes listed
MergePixels ==
    {[a |-> [p \in Planes |-> 16], b |-> [p \in Planes |-> IF p \in d THEN 32 ELSE 16]] :
        d \in SUBSET Planes}

\* a call of RGBMaskMerge: the limits are 1 and 3, the R, G, B samples run
\* from the lower limit to the upper one (scaled with the limits)
MCall ==
    /\ mArgs \in
          {[bits |-> bits, scale_inputs |-> si, clipa |-> px.a, clipb |-> px.b,
            rgb |-> IF si THEN <<scale(r, bits), scale(g, bits), scale(b, bits)>> ELSE <<r, g, b>>,
            limits |-> [Rmin |-> 1, Rmax |-> 3, Gmin |-> 1, Gmax |-> 3, Bmin |-> 1, Bmax |-> 3]] :
              bits \in {8, 10, 12, 16}, si \in BOOLEAN, px \in MergePixels,
              r \in 1..3, g \in 1..3, b \in 1..3}
    /\ mPc = "call"
    /\ mLimits = MIdleArgs.limits
    /\ mMask = -1
    /\ mOut = MIdleArgs.clipa
    /\ mErr = "none"

\* lines 667-675
MScale ==
    /\ mPc = "call"
    /\ mLimits' = ScaledLimits(mArgs)
    /\ mPc' = "convert"
    /\ UNCHANGED <<mArgs, mMask, mOut, mErr>>
    /\ UNCHANGED notM

\* lines 677-684
MConvert ==
    /\ mPc = "convert"
    /\ mErr' = ConvertError(mArgs)
    /\ mPc' = IF ConvertError(mArgs) = "none" THEN "mask" ELSE "raised"
    /\ UNCHANGED <<mArgs, mLimits, mMask, mOut>>
    /\ UNCHANGED notM

\* lines 686-691
MMask ==
    /\ mPc = "mask"
    /\ mMask' = RgbMask(mArgs.rgb, mLimits, mArgs.bits)
    /\ mPc' = "merge"
    /\ UNCHANGED <<mArgs, mLimits, mOut, mErr>>
    /\ UNCHANGED notM

\* lines 694-697: merge, then clip = ShufflePlanes([merge, merge, clipb]), return
MMerge ==
    /\ mPc = "merge"
    /\ LET merge == MaskedMerge(mArgs.clipa, mArgs.clipb, mMask, mArgs.bits)
       IN mOut' = ShufflePlanes(<<merge, merge, mArgs.clipb>>)
    /\ mPc' = "returned"
    /\ UNCHANGED <<mArgs, mLimits, mMask, mErr>>
    /\ UNCHANGED notM

MergeNext == MScale \/ MConvert \/ MMask \/ MMerge

-----------------------------------------------------------------------------
(* Properties of RGBMaskMerge *)

\* the pixel lies strictly inside the range on R, G and B
InsideRange ==
    /\ mLimits.Rmin < mArgs.rgb[1] /\ mArgs.rgb[1] < mLimits.Rmax
    /\ mLimits.Gmin < mArgs.rgb[2] /\ mArgs.rgb[2] < mLimits.Gmax
    /\ mLimits.Bmin < mArgs.rgb[3] /\ mArgs.rgb[3] < mLimits.Bmax

\* C23: the pixel RGBMaskMerge returns is the pixel of clipb when R, G and B
\* lie strictly inside their ranges, and the pixel of clipa, on every plane,
\* when one of them does not
C23_MergedInsideRangeOnly ==
    mPc = "returned" =>
        /\ InsideRange => mOut = mArgs.clipb
        /\ ~InsideRange => mOut = mArgs.clipa

-----------------------------------------------------------------------------
(* The gains of btb (lines 201-229) as a function of the two rows they are   *)
(* computed from: the row of the reference strip and the row of the band.    *)

\* lines 203-225: the operands z (referenceBlurChroma) and y
\* (originalBlurChroma) of expruv on plane p: mt_lut, then the blur
ChromaGainOperands(refRow, origRow, p, bits, kernel) ==
    [z |-> Bicubic(mt_lut(refRow, p, bits), kernel),
     y |-> Bicubic(mt_lut(origRow, p, bits), kernel)]

\* lines 207-229: the operands z (referenceBlur) and y (originalBlur) of yexpr
LumaGainOperands(refRow, origRow, bits, kernel) ==
    [z |-> Bicubic(refRow, kernel), y |-> Bicubic(origRow, kernel)]

\* nothing is being computed
FIdle ==
    /\ fArgs = [f |-> "none"]
    /\ fPc = "idle"
    /\ fOut = 0

\* the 8-bit levels of the samples of the rows
GainLevels == {112, 128, 144}

\* the rows of two samples
GainRows(bits) == {<<scale(u, bits), scale(v, bits)>> : u \in GainLevels, v \in GainLevels}

\* btb computes the gain of plane p from a reference row and a row of the band
GainCall ==
    /\ fArgs \in UNION {{[f |-> "gain", p |-> p, bits |-> bits, kernel |-> k,
                          refRow |-> rr, origRow |-> orr] :
                            p \in Planes, k \in Kernels,
                            rr \in GainRows(bits), orr \in GainRows(bits)} :
                        bits \in {8, 10, 16}}
    /\ fPc = "call"
    /\ fOut = 0

\* lines 201-229 for one plane
GainCompute ==
    /\ fPc = "call"
    /\ fArgs.f = "gain"
    /\ fOut' = IF fArgs.p = 0
               THEN LumaGainOperands(fArgs.refRow, fArgs.origRow, fArgs.bits, fArgs.kernel)
               ELSE ChromaGainOperands(fArgs.refRow, fArgs.origRow, fArgs.p, fArgs.bits,
                                       fArgs.kernel)
    /\ fPc' = "done"
    /\ UNCHANGED fArgs
    /\ UNCHANGED notF

GainNext == GainCompute

\* 2 * |sample - mid| on every sample of a row, mid = scale(128, bits)
Magnitude(row, bits) ==
    [j \in 1..Len(row) |-> 2 * Abs(row[j] - scale(128, bits))]

\* C24: the gain of a chroma plane (1, 2) is the ratio of the blurred
\* magnitudes 2 * |sample - mid| of the reference row and of the row of the
\* band; the gain of plane 0 is the ratio of the blurred raw rows
C24_ChromaGainFromMagnitude ==
    (fPc = "done" /\ fArgs.f = "gain") =>
        IF fArgs.p = 0
        THEN /\ fOut.z = Bicubic(fArgs.refRow, fArgs.kernel)
             /\ fOut.y = Bicubic(fArgs.origRow, fArgs.kernel)
        ELSE /\ fOut.z = Bicubic(Magnitude(fArgs.refRow, fArgs.bits), fArgs.kernel)
             /\ fOut.y = Bicubic(Magnitude(fArgs.origRow, fArgs.bits), fArgs.kernel)

-----------------------------------------------------------------------------
(* scale (lines 979-987) as a function of val and bits, bits_in = 8 *)

\* the 8-bit values and the bit depths scale is applied to
ScaleVals == 0..255

ScaleBits == {8, 10, 16}

\* a call scale(val, bits)
ScaleCall ==
    /\ fArgs \in {[f |-> "scale", val |-> v, bits |-> b] : v \in ScaleVals, b \in ScaleBits}
    /\ fPc = "call"
    /\ fOut = 0

\* line 987
ScaleCompute ==
    /\ fPc = "call"
    /\ fArgs.f = "scale"
    /\ fOut' = scale(fArgs.val, fArgs.bits)
    /\ fPc' = "done"
    /\ UNCHANGED fArgs
    /\ UNCHANGED notF

ScaleNext == ScaleCompute

\* C25: scale(0, bits) = 0, scale(255, bits) = 2^bits - 1, scale(val, 8) = val,
\* and the result lies between the endpoints and on the line through them,
\* rounded down: 255 * result <= val * (2^bits - 1) < 255 * (result + 1), which
\* makes it non-decreasing in val
C25_ScaleLinear ==
    (fPc = "done" /\ fArgs.f = "scale") =>
        LET peak == Pow2(fArgs.bits) - 1
        IN /\ fArgs.val = 0 => fOut = 0
           /\ fArgs.val = 255 => fOut = peak
           /\ fArgs.bits = 8 => fOut = fArgs.val
           /\ 0 <= fOut /\ fOut <= peak
           /\ 255 * fOut <= fArgs.val * peak
           /\ fArgs.val * peak < 255 * (fOut + 1)

\* scale(255, 10) was computed
C25_Witness ==
    /\ fPc = "done"
    /\ fArgs = [f |-> "scale", val |-> 255, bits |-> 10]
    /\ fOut = 1023

\* C27: scale(128, bits) is 2^(bits - 1), the zero point of std.MakeDiff and
\* std.MergeDiff, so that the limits scale(128 - thresh) and scale(128 + thresh)
\* of the difference lie at the same distance from it
C27_ScaledMidIsHalfRange ==
    (fPc = "done" /\ fArgs.f = "scale" /\ fArgs.val = 128) =>
        /\ fOut = HalfOf(fArgs.bits)
        /\ \A thresh \in {1, 16, 127} :
               Tp(thresh, fArgs.bits) - HalfOf(fArgs.bits)
                   = HalfOf(fArgs.bits) - Tm(thresh, fArgs.bits)

-----------------------------------------------------------------------------
(* A further property of CropResizeReader *)

\* C28: a row of 10 fields whose fills are within the crops read from the row
\* on all four edges (0 <= fill <= crop) never ends the call with the
\* ValueError 'filling exceeds cropping' of CropResize, whatever fill_max is
C28_FillWithinCropAccepted ==
    \A k \in 1..Len(rArgs.zones) :
        LET zone == rArgs.zones[k]
        IN (/\ Len(zone) = 10
            /\ RowFill(zone)[1] <= RowCrop(zone).left
            /\ RowFill(zone)[2] <= RowCrop(zone).right
            /\ RowFill(zone)[3] <= RowCrop(zone).top
            /\ RowFill(zone)[4] <= RowCrop(zone).bottom)
           => ~(rPc = "raised" /\ rZone = k /\ rErr = "ValueError")

-----------------------------------------------------------------------------
(* bbmod (lines 56-149): the helper that crops the edge strips, corrects     *)
(* them with bbmoda and stacks them back on the middle.                      *)

\* bbmoda's statements of lines 248-255 for one side: btb if the thickness is
\* > 0, then Transpose and FlipHorizontal
bbmodaSide(c, th, thresh, bits, kernel) ==
    Rotate(IF Corrects(th) THEN btb(c, th, thresh, bits, kernel) ELSE c)

\* std.Crop refuses a negative left or top, a window that is empty and a
\* window that reaches beyond the frame (a negative right or bottom)
CropRefused(c, l, r, t, b) ==
    \/ l < 0 \/ t < 0
    \/ FrameWidth(c) - l - r <= 0 \/ FrameHeight(c) - t - b <= 0
    \/ r < 0 \/ b < 0

\* std.Crop on a frame
CropFrame(c, l, r, t, b) ==
    [p \in DOMAIN c |->
        [i \in 1..(FrameHeight(c) - t - b) |->
            [j \in 1..(FrameWidth(c) - l - r) |-> c[p][i + t][j + l]]]]

\* std.StackHorizontal of two or three frames of one height
StackHorizontal(clips) ==
    [p \in DOMAIN clips[1] |->
        [i \in 1..FrameHeight(clips[1]) |->
            IF Len(clips) = 2 THEN clips[1][p][i] \o clips[2][p][i]
            ELSE clips[1][p][i] \o clips[2][p][i] \o clips[3][p][i]]]

\* std.StackVertical of two or three frames of one width
StackVertical(clips) ==
    [p \in DOMAIN clips[1] |->
        IF Len(clips) = 2 THEN clips[1][p] \o clips[2][p]
        ELSE clips[1][p] \o clips[2][p] \o clips[3][p]]

\* None, for the legacy thicknesses cTop, cBottom, cLeft, cRight
None == -1

\* lines 73-83: top, bottom, left, right after the legacy arguments replaced them
HelperThickness(a) ==
    [top |-> IF a.cTop # None THEN a.cTop ELSE a.top,
     bottom |-> IF a.cBottom # None THEN a.cBottom ELSE a.bottom,
     left |-> IF a.cLeft # None THEN a.cLeft ELSE a.left,
     right |-> IF a.cRight # None THEN a.cRight ELSE a.right]

\* line 86: thresh = int(math.pow(2, depth - 1))
HelperThresh(a) == Pow2(a.bits - 1)

\* lines 90-93: c_left = max(left * 2, 4), and likewise the other strips
StripWidth(th) == Max2(th * 2, 4)

\* a strip with the thicknesses of the call of bbmoda on it (the middle has none)
Strip(clip, cTop, cBottom, cLeft, cRight) ==
    [clip |-> clip, cTop |-> cTop, cBottom |-> cBottom, cLeft |-> cLeft, cRight |-> cRight]

Untouched(clip) == Strip(clip, 0, 0, 0, 0)

\* the strip is passed to bbmoda
Balanced(s) == s.cTop > 0 \/ s.cBottom > 0 \/ s.cLeft > 0 \/ s.cRight > 0

\* lines 97-121: std.Crop refuses one of the crops of the left and right edges
\* and the call ends with vapoursynth.Error
HorizontalRefused(a, filtered) ==
    LET left == HelperThickness(a).left
        right == HelperThickness(a).right
        c_left == StripWidth(left)
        c_right == StripWidth(right)
        f_width == FrameWidth(a.clip)
        refused(l, r) == CropRefused(filtered, l, r, 0, 0)
    IN IF left > 0 /\ right > 0
       THEN \/ refused(0, f_width - c_left) \/ refused(c_left, c_right)
            \/ refused(f_width - c_right, 0)
       ELSE IF left > 0 /\ right = 0
       THEN refused(0, f_width - c_left) \/ refused(c_left, 0)
       ELSE IF left = 0 /\ right > 0
       THEN refused(f_width - c_right, 0) \/ refused(0, c_right)
       ELSE FALSE

\* lines 97-121: the strips l, m, r in the order StackHorizontal gets them,
\* with the thicknesses of the calls bbmoda(l, cLeft=left) and
\* bbmoda(r, cRight=right); no strip if left = right = 0
HorizontalStrips(a, filtered) ==
    LET left == HelperThickness(a).left
        right == HelperThickness(a).right
        c_left == StripWidth(left)
        c_right == StripWidth(right)
        f_width == FrameWidth(a.clip)
        strip(l, r) == CropFrame(filtered, l, r, 0, 0)
    IN IF left > 0 /\ right > 0
       THEN <<Strip(strip(0, f_width - c_left), 0, 0, left, 0), Untouched(strip(c_left, c_right)),
              Strip(strip(f_width - c_right, 0), 0, 0, 0, right)>>
       ELSE IF left > 0 /\ right = 0
       THEN <<Strip(strip(0, f_width - c_left), 0, 0, left, 0), Untouched(strip(c_left, 0))>>
       ELSE IF left = 0 /\ right > 0
       THEN <<Untouched(strip(0, c_right)), Strip(strip(f_width - c_right, 0), 0, 0, 0, right)>>
       ELSE <<>>

\* lines 123-147: std.Crop refuses one of the crops of the top and bottom edges
VerticalRefused(a, filtered) ==
    LET top == HelperThickness(a).top
        bottom == HelperThickness(a).bottom
        c_top == StripWidth(top)
        c_bottom == StripWidth(bottom)
        f_height == FrameHeight(a.clip)
        refused(t, b) == CropRefused(filtered, 0, 0, t, b)
    IN IF top > 0 /\ bottom > 0
       THEN \/ refused(0, f_height - c_top) \/ refused(c_top, c_bottom)
            \/ refused(f_height - c_bottom, 0)
       ELSE IF top > 0 /\ bottom = 0
       THEN refused(0, f_height - c_top) \/ refused(c_top, 0)
       ELSE IF top = 0 /\ bottom > 0
       THEN refused(f_height - c_bottom, 0) \/ refused(0, c_bottom)
       ELSE FALSE

\* lines 123-147: the strips t, m, b in the order StackVertical gets them, with
\* the thicknesses of the calls bbmoda(t, cTop=top) and bbmoda(b, cBottom=bottom)
VerticalStrips(a, filtered) ==
    LET top == HelperThickness(a).top
        bottom == HelperThickness(a).bottom
        c_top == StripWidth(top)
        c_bottom == StripWidth(bottom)
        f_height == FrameHeight(a.clip)
        strip(t, b) == CropFrame(filtered, 0, 0, t, b)
    IN IF top > 0 /\ bottom > 0
       THEN <<Strip(strip(0, f_height - c_top), top, 0, 0, 0), Untouched(strip(c_top, c_bottom)),
              Strip(strip(f_height - c_bottom, 0), 0, bottom, 0, 0)>>
       ELSE IF top > 0 /\ bottom = 0
       THEN <<Strip(strip(0, f_height - c_top), top, 0, 0, 0), Untouched(strip(c_top, 0))>>
       ELSE IF top = 0 /\ bottom > 0
       THEN <<Untouched(strip(0, c_bottom)), Strip(strip(f_height - c_bottom, 0), 0, bottom, 0, 0)>>
       ELSE <<>>

\* the first strip after the k-th that is passed to bbmoda (one past the last
\* strip if there is none)
NextBalanced(strips, k) ==
    IF \E n \in (k + 1)..Len(strips) : Balanced(strips[n])
    THEN CHOOSE n \in (k + 1)..Len(strips) :
             Balanced(strips[n]) /\ \A q \in (k + 1)..(n - 1) : ~Balanced(strips[q])
    ELSE Len(strips) + 1

StripClips(strips) == [n \in 1..Len(strips) |-> strips[n].clip]

\* the frames of the calls: every sample has its own level (luma from 32,
\* chroma from 112, in 8-bit terms), the outermost rows and columns are darker
HelperFrame(h, w, bits) ==
    [p \in Planes |->
        [i \in 1..h |->
            [j \in 1..w |->
                scale((IF p = 0 THEN 32 ELSE 112) + 3 * i + 5 * j
                      - (IF i \in {1, h} \/ j \in {1, w} THEN 8 ELSE 0), bits)]]]

HIdleArgs ==
    [clip |-> HelperFrame(1, 1, 8), bits |-> 8, top |-> 0, bottom |-> 0, left |-> 0, right |-> 0,
     cTop |-> None, cBottom |-> None, cLeft |-> None, cRight |-> None, kernel |-> "min"]

\* bbmod is not running
HIdle ==
    /\ hArgs = HIdleArgs
    /\ hPc = "idle"
    /\ hFiltered = HIdleArgs.clip
    /\ hStrips = <<>>
    /\ hSide = [k |-> 0, e |-> 0]
    /\ hErr = "none"

\* the widths and heights of the frames
HelperSides == {4, 6, 9}

\* the thicknesses of the calls
HelperThicknesses == {0, 1, 3}

\* a call of bbmod: with top, bottom, left, right, or with the legacy
\* arguments on top of them
HCall ==
    /\ hArgs \in
          {[HIdleArgs EXCEPT !.clip = HelperFrame(h, w, bits), !.bits = bits, !.kernel = k,
                             !.top = t, !.bottom = b, !.left = l, !.right = r] :
              h \in HelperSides, w \in HelperSides, bits \in {8, 10}, k \in Kernels,
              t \in HelperThicknesses, b \in HelperThicknesses,
              l \in HelperThicknesses, r \in HelperThicknesses}
          \cup {[HIdleArgs EXCEPT !.clip = HelperFrame(9, 9, 8), !.top = t, !.left = l,
                                  !.cTop = ct, !.cBottom = cb, !.cLeft = cl, !.cRight = cr] :
                   t \in {3}, l \in {0}, ct \in {None, 0, 1}, cb \in {None},
                   cl \in {None, 1}, cr \in {None}}
    /\ hPc = "call"
    /\ hFiltered = hArgs.clip
    /\ hStrips = <<>>
    /\ hSide = [k |-> 0, e |-> 0]
    /\ hErr = "none"

\* lines 73-100, 108-109, 116-117: the thicknesses, and the crops of the left
\* and right edges
HCropHorizontal ==
    /\ hPc = "call"
    /\ IF HorizontalRefused(hArgs, hFiltered)
       THEN hPc' = "raised" /\ hErr' = "Error" /\ UNCHANGED <<hStrips, hSide>>
       ELSE /\ hStrips' = HorizontalStrips(hArgs, hFiltered)
            /\ hSide' = [k |-> NextBalanced(HorizontalStrips(hArgs, hFiltered), 0), e |-> 0]
            /\ hPc' = "hfix"
            /\ UNCHANGED hErr
    /\ UNCHANGED <<hArgs, hFiltered>>
    /\ UNCHANGED notH

\* one call of bbmoda on a strip (lines 102-103, 111, 119, 128-129, 137, 145),
\* a statement of lines 248-255 at a time; bbmoda's checks of lines 179-189
\* pass (the strip is an integer clip, blur = 20, thresh = 2^(depth - 1) > 0)
HBbmodaSide ==
    /\ hPc \in {"hfix", "vfix"}
    /\ hSide.k <= Len(hStrips)
    /\ LET s == hStrips[hSide.k]
           th == EdgeThickness(s, hSide.e + 1)
       IN IF Corrects(th) /\ ClampTop(s.clip, th) < 1
          THEN hPc' = "raised" /\ hErr' = "Error" /\ UNCHANGED <<hStrips, hSide>>
          ELSE /\ hStrips' = [hStrips EXCEPT ![hSide.k].clip =
                                  bbmodaSide(s.clip, th, HelperThresh(hArgs), hArgs.bits, hArgs.kernel)]
               /\ hSide' = IF hSide.e = 3 THEN [k |-> NextBalanced(hStrips, hSide.k), e |-> 0]
                                          ELSE [hSide EXCEPT !.e = hSide.e + 1]
               /\ UNCHANGED <<hPc, hErr>>
    /\ UNCHANGED <<hArgs, hFiltered>>
    /\ UNCHANGED notH

\* lines 105, 113, 121: filtered = core.std.StackHorizontal(...)
HStackHorizontal ==
    /\ hPc = "hfix"
    /\ hSide.k > Len(hStrips)
    /\ hFiltered' = IF hStrips = <<>> THEN hFiltered ELSE StackHorizontal(StripClips(hStrips))
    /\ hPc' = "vertical"
    /\ UNCHANGED <<hArgs, hStrips, hSide, hErr>>
    /\ UNCHANGED notH

\* lines 124-126, 134-135, 142-143: the crops of the top and bottom edges
HCropVertical ==
    /\ hPc = "vertical"
    /\ IF VerticalRefused(hArgs, hFiltered)
       THEN hPc' = "raised" /\ hErr' = "Error" /\ UNCHANGED <<hStrips, hSide>>
       ELSE /\ hStrips' = VerticalStrips(hArgs, hFiltered)
            /\ hSide' = [k |-> NextBalanced(VerticalStrips(hArgs, hFiltered), 0), e |-> 0]
            /\ hPc' = "vfix"
            /\ UNCHANGED hErr
    /\ UNCHANGED <<hArgs, hFiltered>>
    /\ UNCHANGED notH

\* lines 131, 139, 147: filtered = core.std.StackVertical(...)
HStackVertical ==
    /\ hPc = "vfix"
    /\ hSide.k > Len(hStrips)
    /\ hFiltered' = IF hStrips = <<>> THEN hFiltered ELSE StackVertical(StripClips(hStrips))
    /\ hPc' = "return"
    /\ UNCHANGED <<hArgs, hStrips, hSide, hErr>>
    /\ UNCHANGED notH

\* line 149: return filtered
HReturn ==
    /\ hPc = "return"
    /\ hPc' = "returned"
    /\ UNCHANGED <<hArgs, hFiltered, hStrips, hSide, hErr>>
    /\ UNCHANGED notH

HelperNext ==
    HCropHorizontal \/ HBbmodaSide \/ HStackHorizontal \/ HCropVertical \/ HStackVertical \/ HReturn

-----------------------------------------------------------------------------
(* Properties of bbmod *)

\* the cell lies in one of the strips bbmod cuts off: c_left columns on the
\* left if left > 0, and likewise on the other edges
InStrip(a, i, j) ==
    LET th == HelperThickness(a)
    IN \/ th.left > 0 /\ j <= StripWidth(th.left)
       \/ th.right > 0 /\ j > FrameWidth(a.clip) - StripWidth(th.right)
       \/ th.top > 0 /\ i <= StripWidth(th.top)
       \/ th.bottom > 0 /\ i > FrameHeight(a.clip) - StripWidth(th.bottom)

\* the frame of filtered has the size of the input, and its samples outside the
\* strips are the input's
SameOutsideStrips ==
    /\ FrameWidth(hFiltered) = FrameWidth(hArgs.clip)
    /\ FrameHeight(hFiltered) = FrameHeight(hArgs.clip)
    /\ \A p \in Planes : \A i \in 1..FrameHeight(hArgs.clip) : \A j \in 1..FrameWidth(hArgs.clip) :
           ~InStrip(hArgs, i, j) => hFiltered[p][i][j] = hArgs.clip[p][i][j]

\* the thicknesses are in the range 0 <= left, right < width and
\* 0 <= top, bottom < height
ThicknessInFrame ==
    LET th == HelperThickness(hArgs)
    IN /\ 0 <= th.left /\ th.left < FrameWidth(hArgs.clip)
       /\ 0 <= th.right /\ th.right < FrameWidth(hArgs.clip)
       /\ 0 <= th.top /\ th.top < FrameHeight(hArgs.clip)
       /\ 0 <= th.bottom /\ th.bottom < FrameHeight(hArgs.clip)

\* C29: with thicknesses in that range bbmod raises nothing, and the clip it
\* returns has the width and height of the input and the input's samples
\* everywhere outside the strips of width max(2 * thickness, 4)
C29_HelperKeepsOutside ==
    ThicknessInFrame =>
        /\ hPc # "raised"
        /\ hPc = "returned" => SameOutsideStrips

\* whenever bbmod does return, the size and the samples outside the strips are
\* the input's
HelperReturnedKeepsOutside == hPc = "returned" => SameOutsideStrips

\* a call that returned after it corrected a sample of a strip
HelperCorrected ==
    /\ hPc = "returned"
    /\ hFiltered # hArgs.clip

-----------------------------------------------------------------------------
(* Specifications: one component runs, the others stay idle *)

InitBalance == BCall /\ CIdle /\ KIdle /\ RIdle /\ DIdle /\ MIdle /\ FIdle /\ HIdle

SpecBalance == InitBalance /\ [][BalanceNext]_vars

InitCrop == CCall /\ BIdle /\ KIdle /\ RIdle /\ DIdle /\ MIdle /\ FIdle /\ HIdle

SpecCrop == InitCrop /\ [][CropNext]_vars

InitBorders == KCall /\ BIdle /\ CIdle /\ RIdle /\ DIdle /\ MIdle /\ FIdle /\ HIdle

SpecBorders == InitBorders /\ [][BordersNext]_vars

InitReader == RCall /\ BIdle /\ CIdle /\ KIdle /\ DIdle /\ MIdle /\ FIdle /\ HIdle

SpecReader == InitReader /\ [][ReaderNext]_vars

InitDeband == DCall /\ BIdle /\ CIdle /\ KIdle /\ RIdle /\ MIdle /\ FIdle /\ HIdle

SpecDeband == InitDeband /\ [][DebandNext]_vars

InitMerge == MCall /\ BIdle /\ CIdle /\ KIdle /\ RIdle /\ DIdle /\ FIdle /\ HIdle

SpecMerge == InitMerge /\ [][MergeNext]_vars

InitGain == GainCall /\ BIdle /\ CIdle /\ KIdle /\ RIdle /\ DIdle /\ MIdle /\ HIdle

SpecGain == InitGain /\ [][GainNext]_vars

InitScale == ScaleCall /\ BIdle /\ CIdle /\ KIdle /\ RIdle /\ DIdle /\ MIdle /\ HIdle

SpecScale == InitScale /\ [][ScaleNext]_vars

InitHelper == HCall /\ BIdle /\ CIdle /\ KIdle /\ RIdle /\ DIdle /\ MIdle /\ FIdle

SpecHelper == InitHelper /\ [][HelperNext]_vars

====
